---- MODULE Spec2Model ----
(***************************************************************************)
(* Scoring / colour-calibration core of the automation dashboard:          *)
(*   utils/calculations.py  AutomationCalculator                           *)
(*   utils/color_mapper.py  ColorMapper                                    *)
(*                                                                         *)
(* Every cost and score in the program is a Python float (IEEE-754         *)
(* binary64).  The model computes with the same values: a float is the     *)
(* record [m, e] standing for m * 2^e, where m is a natural number of      *)
(* exactly MantDig bits (or zero), written as a little-endian sequence of  *)
(* base-2^15 limbs.  Every arithmetic operator rounds to nearest, ties to  *)
(* even, as the hardware does.  Only non-negative finite values occur      *)
(* (costs and scores are >= 0), far from overflow and underflow.           *)
(* The built-in sum adds left to right, one rounding per element, as       *)
(* CPython up to 3.11 does.                                                *)
(***************************************************************************)
EXTENDS Integers, Sequences, FiniteSets, TLC

----------------------------------------------------------------------------
(* Natural numbers of arbitrary size: little-endian limbs, no high zeros.  *)

LimbBits == 15
Limb == 32768

RECURSIVE Pow2(_)
Pow2(k) == IF k = 0 THEN 1 ELSE 2 * Pow2(k - 1)

RECURSIVE BNorm(_)
BNorm(a) ==
    IF a = <<>> THEN <<>>
    ELSE IF a[Len(a)] = 0 THEN BNorm(SubSeq(a, 1, Len(a) - 1))
    ELSE a

RECURSIVE BFromNat(_)
BFromNat(n) == IF n = 0 THEN <<>> ELSE <<n % Limb>> \o BFromNat(n \div Limb)

RECURSIVE BAddC(_, _, _)
BAddC(a, b, c) ==
    IF a = <<>> /\ b = <<>> THEN (IF c = 0 THEN <<>> ELSE <<c>>)
    ELSE LET x == IF a = <<>> THEN 0 ELSE Head(a)
             y == IF b = <<>> THEN 0 ELSE Head(b)
             s == x + y + c
         IN  <<s % Limb>> \o BAddC(IF a = <<>> THEN a ELSE Tail(a),
                                    IF b = <<>> THEN b ELSE Tail(b),
                                    s \div Limb)

BAdd(a, b) == BAddC(a, b, 0)

\* a - b for a >= b
RECURSIVE BSubC(_, _, _)
BSubC(a, b, c) ==
    IF a = <<>> THEN <<>>
    ELSE LET y == IF b = <<>> THEN 0 ELSE Head(b)
             d == Head(a) - y - c
         IN  <<IF d < 0 THEN d + Limb ELSE d>>
                 \o BSubC(Tail(a), IF b = <<>> THEN b ELSE Tail(b),
                          IF d < 0 THEN 1 ELSE 0)

BSub(a, b) == BNorm(BSubC(a, b, 0))

\* -1, 0, 1 as a < b, a = b, a > b
RECURSIVE BCmpFrom(_, _, _)
BCmpFrom(a, b, i) ==
    IF i = 0 THEN 0
    ELSE IF a[i] < b[i] THEN -1
    ELSE IF a[i] > b[i] THEN 1
    ELSE BCmpFrom(a, b, i - 1)

BCmp(a, b) ==
    IF Len(a) < Len(b) THEN -1
    ELSE IF Len(a) > Len(b) THEN 1
    ELSE BCmpFrom(a, b, Len(a))

\* a * d + c for one limb d
RECURSIVE BMulSmallC(_, _, _)
BMulSmallC(a, d, c) ==
    IF a = <<>> THEN (IF c = 0 THEN <<>> ELSE <<c>>)
    ELSE LET p == Head(a) * d + c
         IN  <<p % Limb>> \o BMulSmallC(Tail(a), d, p \div Limb)

BMulSmall(a, d) == IF d = 0 THEN <<>> ELSE BMulSmallC(a, d, 0)

\* a * Limb
BShiftLimb(a) == IF a = <<>> THEN <<>> ELSE <<0>> \o a

RECURSIVE BMul(_, _)
BMul(a, b) ==
    IF a = <<>> \/ b = <<>> THEN <<>>
    ELSE BAdd(BMulSmall(a, Head(b)), BShiftLimb(BMul(a, Tail(b))))

RECURSIVE Zeros(_)
Zeros(q) == IF q = 0 THEN <<>> ELSE <<0>> \o Zeros(q - 1)

\* a * 2^k
BShl(a, k) ==
    IF a = <<>> THEN <<>>
    ELSE Zeros(k \div LimbBits) \o BMulSmall(a, Pow2(k % LimbBits))

\* floor(a / d) for one limb d, from the most significant limb down
RECURSIVE BDivSmallR(_, _, _)
BDivSmallR(a, d, r) ==
    IF a = <<>> THEN <<>>
    ELSE LET n   == Len(a)
             cur == r * Limb + a[n]
         IN  BDivSmallR(SubSeq(a, 1, n - 1), d, cur % d) \o <<cur \div d>>

\* floor(a / 2^k)
BShr(a, k) ==
    LET q == k \div LimbBits
    IN  IF Len(a) <= q THEN <<>>
        ELSE BNorm(BDivSmallR(SubSeq(a, q + 1, Len(a)), Pow2(k % LimbBits), 0))

RECURSIVE NatBitLen(_)
NatBitLen(n) == IF n = 0 THEN 0 ELSE 1 + NatBitLen(n \div 2)

BBitLen(a) ==
    IF a = <<>> THEN 0 ELSE LimbBits * (Len(a) - 1) + NatBitLen(a[Len(a)])

BIsOdd(a) == a # <<>> /\ a[1] % 2 = 1

\* floor(r / m) as one limb, for r < m * Limb and m with its top limb >= Limb/2:
\* the two leading limbs of r over the leading limb of m overestimate it by at
\* most 2 (Knuth, algorithm D), and the estimate is then corrected downwards.
RECURSIVE BQuotFix(_, _, _)
BQuotFix(r, m, d) ==
    IF BCmp(BMulSmall(m, d), r) = 1 THEN BQuotFix(r, m, d - 1) ELSE d

BQuotLimb(r, m) ==
    LET n   == Len(m)
        hi  == IF Len(r) > n THEN r[n + 1] ELSE 0
        lo  == IF Len(r) >= n THEN r[n] ELSE 0
        est == (hi * Limb + lo) \div m[n]
    IN  BQuotFix(r, m, IF est > Limb - 1 THEN Limb - 1 ELSE est)

\* <<floor(a / m), a mod m>> for the limbs of a above position i, by long division
\* from the most significant limb down; q and r are the quotient and the
\* remainder of the limbs already taken, and r stays below m.  BDivDigit takes
\* the next limb of a into the remainder r1, BDivNext its quotient digit d.
RECURSIVE BDivStep(_, _, _, _, _)
RECURSIVE BDivDigit(_, _, _, _, _)
RECURSIVE BDivNext(_, _, _, _, _, _)
BDivStep(a, i, m, q, r) ==
    IF i = 0 THEN <<q, r>> ELSE BDivDigit(a, i, m, q, BNorm(<<a[i]>> \o r))

BDivDigit(a, i, m, q, r1) == BDivNext(a, i, m, q, r1, BQuotLimb(r1, m))

BDivNext(a, i, m, q, r1, d) ==
    BDivStep(a, i - 1, m, <<d>> \o q, BSub(r1, BMulSmall(m, d)))

\* the quotient and the remainder of a and m from those of a * 2^s and m * 2^s
BDivOut(qr, s) == <<BNorm(qr[1]), BShr(qr[2], s)>>

\* a and m already scaled by 2^s
BDivScaled(a, m, s) == BDivOut(BDivStep(a, Len(a), m, <<>>, <<>>), s)

\* the scaling by 2^s brings the top limb of m to Limb/2 or more
BDivBy(a, m, s) == BDivScaled(BShl(a, s), BShl(m, s), s)

BDivMod(a, m) == BDivBy(a, m, LimbBits - NatBitLen(m[Len(m)]))

----------------------------------------------------------------------------
(* Python floats: IEEE-754 binary64, non-negative and finite.               *)

MantDig == 53

FZero == [m |-> <<>>, e |-> 0]

\* q1 * 2^e for q1 of MantDig bits, or of one bit more after a carry
FNormal(q1, e) ==
    IF BBitLen(q1) > MantDig THEN [m |-> BShr(q1, 1), e |-> e + 1]
    ELSE [m |-> q1, e |-> e]

\* q * 2^e rounded up or not: c compares the bits dropped below q with half a
\* unit of q (-1, 0, 1), and a tie goes to the even neighbour
FRoundTie(q, e, c) ==
    FNormal(IF c = 1 \/ (c = 0 /\ BIsOdd(q)) THEN BAdd(q, <<1>>) ELSE q, e)

\* n * 2^e for n of k bits too many, q its leading MantDig bits
FRoundDrop(n, e, k, q) ==
    FRoundTie(q, e + k, BCmp(BSub(n, BShl(q, k)), BShl(<<1>>, k - 1)))

\* n * 2^e for n of len bits
FRoundLen(n, e, len) ==
    IF len = 0 THEN FZero
    ELSE IF len <= MantDig
    THEN [m |-> BShl(n, MantDig - len), e |-> e - (MantDig - len)]
    ELSE FRoundDrop(n, e, len - MantDig, BShr(n, len - MantDig))

\* the float nearest to n * 2^e (ties to even), n a natural number in limbs
FRound(n, e) == FRoundLen(n, e, BBitLen(n))

FFromNat(n) == FRound(BFromNat(n), 0)

FIsZero(x) == x.m = <<>>

\* -1, 0, 1 as x < y, x = y, x > y
FCmp(x, y) ==
    IF FIsZero(x) THEN (IF FIsZero(y) THEN 0 ELSE -1)
    ELSE IF FIsZero(y) THEN 1
    ELSE IF x.e < y.e THEN -1
    ELSE IF x.e > y.e THEN 1
    ELSE BCmp(x.m, y.m)

FGe(x, y) == FCmp(x, y) >= 0
FLt(x, y) == FCmp(x, y) < 0

\* x + y
FAdd(x, y) ==
    IF FIsZero(x) THEN y
    ELSE IF FIsZero(y) THEN x
    ELSE LET e == IF x.e < y.e THEN x.e ELSE y.e
         IN  FRound(BAdd(BShl(x.m, x.e - e), BShl(y.m, y.e - e)), e)

\* x - y for x >= y
FSub(x, y) ==
    IF FIsZero(y) THEN x
    ELSE LET e == IF x.e < y.e THEN x.e ELSE y.e
         IN  FRound(BSub(BShl(x.m, x.e - e), BShl(y.m, y.e - e)), e)

\* x * y
FMul(x, y) ==
    IF FIsZero(x) \/ FIsZero(y) THEN FZero
    ELSE FRound(BMul(x.m, y.m), x.e + y.e)

\* x / y for y > 0: the quotient to 60 more bits than the mantissa holds, with a
\* last bit that records a non-zero remainder, rounds as the exact quotient does
FDivSticky(qr, e) ==
    FRound(BAddC(BShl(qr[1], 1), <<>>, IF qr[2] = <<>> THEN 0 ELSE 1), e)

FDiv(x, y) ==
    IF FIsZero(x) THEN FZero
    ELSE FDivSticky(BDivMod(BShl(x.m, 4 * LimbBits), y.m),
                    x.e - y.e - 4 * LimbBits - 1)

\* the integer part of x, as an integer (x < 2^30)
BToNat(n) ==
    (IF Len(n) >= 1 THEN n[1] ELSE 0) + (IF Len(n) >= 2 THEN n[2] * Limb ELSE 0)

FFloor(x) ==
    IF FIsZero(x) \/ x.e <= -MantDig THEN 0 ELSE BToNat(BShr(x.m, -x.e))

\* the float a decimal literal num/den denotes (the nearest float)
FRatio(num, den) == FDiv(FFromNat(num), FFromNat(den))

----------------------------------------------------------------------------
(* Python values                                                            *)

None == [none |-> TRUE]

\* float("nan"), the one float the arithmetic above does not produce
NaN == [nan |-> TRUE]

\* {}: a dict is a function from the keys it holds
EmptyDict == [k \in {} |-> None]

\* sum(xs): the built-in accumulates from 0, left to right, one float
\* addition (one rounding) per element
RECURSIVE SumFrom(_, _)
SumFrom(acc, xs) ==
    IF xs = <<>> THEN acc ELSE SumFrom(FAdd(acc, Head(xs)), Tail(xs))

sum(xs) == SumFrom(FZero, xs)

\* the outcome of a call that raises instead of returning
ZeroDivisionError == [raised |-> "ZeroDivisionError"]

\* x / y: float division raises on a zero divisor
TrueDiv(x, y) == IF FIsZero(y) THEN ZeroDivisionError ELSE FDiv(x, y)

----------------------------------------------------------------------------
(* utils/calculations.py: AutomationCalculator                              *)

\* a subfunction record as DataLoader.load_industry builds it: its cost and
\* the one-entry dict {"score": score} of its automation scores
Subfunction(cost, score) ==
    [unit_cost_per_1000 |-> cost, automation_scores |-> [score |-> score]]

get_automation_score(scores) == sum(<<scores.score>>)

SfCost(sf) == sf.unit_cost_per_1000

\* sf["unit_cost_per_1000"] for sf in subfunctions
Costs(subfunctions) ==
    [i \in 1..Len(subfunctions) |-> SfCost(subfunctions[i])]

\* a faulty variant that misses the first subfunction
get_function_unit_cost_skip(function) ==
    IF function.subfunctions = <<>> THEN FZero
    ELSE sum(Costs(Tail(function.subfunctions)))

get_function_unit_cost(function) == sum(Costs(function.subfunctions))

SfWeighted(sf) ==
    FMul(get_automation_score(sf.automation_scores), sf.unit_cost_per_1000)

\* get_automation_score(sf["automation_scores"]) * sf["unit_cost_per_1000"]
\* for sf in subfunctions
WeightedScores(subfunctions) ==
    [i \in 1..Len(subfunctions) |-> SfWeighted(subfunctions[i])]

\* a faulty variant without the zero-cost guard
get_function_automation_score_noguard(function) ==
    LET total_cost == sum(Costs(function.subfunctions))
    IN  TrueDiv(sum(WeightedScores(function.subfunctions)), total_cost)

get_function_automation_score(function) ==
    LET total_cost == sum(Costs(function.subfunctions))
    IN  IF FIsZero(total_cost) THEN FZero
        ELSE TrueDiv(sum(WeightedScores(function.subfunctions)), total_cost)

----------------------------------------------------------------------------
(* utils/color_mapper.py: ColorMapper                                       *)

COLOR_HIGH    == "#1A7A4A"
COLOR_MEDIUM  == "#52B788"
COLOR_LOW     == "#F4C542"
COLOR_DEFAULT == COLOR_LOW

LABEL_HIGH   == "High"
LABEL_MEDIUM == "Medium"
LABEL_LOW    == "Low"

default_p80 == FRatio(40, 10)
default_p40 == FRatio(30, 10)

\* sorted ascending (insertion sort; equal floats are indistinguishable)
RECURSIVE Insert(_, _)
Insert(x, xs) ==
    IF xs = <<>> THEN <<x>>
    ELSE IF FCmp(x, Head(xs)) <= 0 THEN <<x>> \o xs
    ELSE <<Head(xs)>> \o Insert(x, Tail(xs))

RECURSIVE Sorted(_)
Sorted(xs) == IF xs = <<>> THEN <<>> ELSE Insert(Head(xs), Sorted(Tail(xs)))

\* numpy's _lerp(a, b, t): a + (b - a) * t, and b - (b - a) * (1 - t) for t >= 0.5
Half == FRatio(1, 2)
One == FFromNat(1)
Hundred == FFromNat(100)

LerpBy(a, b, t, diff_b_a) ==
    IF FGe(t, Half) THEN FSub(b, FMul(diff_b_a, FSub(One, t)))
    ELSE FAdd(a, FMul(diff_b_a, t))

Lerp(a, b, t) == LerpBy(a, b, t, FSub(b, a))

\* a faulty variant of np.percentile that takes the lower rank, uninterpolated
percentile_lower(arr, q) ==
    Sorted(arr)[FFloor(FMul(FFromNat(Len(arr) - 1),
                            FDiv(FFromNat(q), Hundred))) + 1]

\* np.percentile(arr, q), method "linear", for a non-empty arr: the value at the
\* virtual index (n - 1) * (q / 100) of the sorted values, interpolated between
\* the two neighbouring ranks
\* between the ranks previous and previous + 1 (counted from 0) of srt
PercentileBetween(srt, virtual, previous) ==
    Lerp(srt[previous + 1], srt[previous + 2], FSub(virtual, FFromNat(previous)))

\* at the virtual index virtual of the n sorted values srt; an index at or
\* above the last rank gives the last value
PercentileAt(srt, n, virtual) ==
    IF FGe(virtual, FFromNat(n - 1)) THEN Lerp(srt[n], srt[n], One)
    ELSE PercentileBetween(srt, virtual, FFloor(virtual))

percentile(arr, q) ==
    PercentileAt(Sorted(arr), Len(arr),
                 FMul(FFromNat(Len(arr) - 1), FDiv(FFromNat(q), Hundred)))

\* s is not None and not np.isnan(s)
IsScore(s) == s # None /\ s # NaN

\* d[key] = value
DictSet(d, key, value) ==
    [k \in DOMAIN d \cup {key} |-> IF k = key THEN value ELSE d[k]]

\* a faulty variant that folds the thresholds already stored into the batch
calibrate_accumulate(cm, scores, industry_key) ==
    IF scores = <<>> THEN cm
    ELSE LET old == IF industry_key \in DOMAIN cm.thresholds
                    THEN cm.thresholds[industry_key] ELSE <<>>
             arr == SelectSeq(scores, IsScore) \o old
         IN  IF Len(SelectSeq(scores, IsScore)) = 0 THEN cm
             ELSE [thresholds |->
                       DictSet(cm.thresholds, industry_key,
                               <<percentile(arr, 80), percentile(arr, 40)>>),
                   active_industry |-> industry_key]

\* a faulty variant that forgets the calibrations of the other keys
calibrate_reset(cm, scores, industry_key) ==
    IF scores = <<>> THEN cm
    ELSE LET arr == SelectSeq(scores, IsScore)
         IN  IF Len(arr) = 0 THEN cm
             ELSE [thresholds |->
                       DictSet(EmptyDict, industry_key,
                               <<percentile(arr, 80), percentile(arr, 40)>>),
                   active_industry |-> industry_key]

\* a faulty variant that makes the key active before looking at the batch
calibrate_activate(cm, scores, industry_key) ==
    IF scores = <<>> THEN cm
    ELSE LET arr == SelectSeq(scores, IsScore)
         IN  IF Len(arr) = 0 THEN [cm EXCEPT !.active_industry = industry_key]
             ELSE [thresholds |->
                       DictSet(cm.thresholds, industry_key,
                               <<percentile(arr, 80), percentile(arr, 40)>>),
                   active_industry |-> industry_key]

\* the class state: cm = [thresholds, active_industry]
calibrate(cm, scores, industry_key) ==
    IF scores = <<>> THEN cm
    ELSE LET arr == SelectSeq(scores, IsScore)
         IN  IF Len(arr) = 0 THEN cm
             ELSE LET p80 == percentile(arr, 80)
                      p40 == percentile(arr, 40)
                  IN  [thresholds |->
                           DictSet(cm.thresholds, industry_key, <<p80, p40>>),
                       active_industry |-> industry_key]

\* a faulty variant that keeps the calibration of the new key only
set_active_industry_drop(cm, industry_key) ==
    [thresholds |-> [k \in DOMAIN cm.thresholds \cap {industry_key} |->
                        cm.thresholds[k]],
     active_industry |-> industry_key]

set_active_industry(cm, industry_key) ==
    [cm EXCEPT !.active_industry = industry_key]

\* a faulty variant that falls back on the calibration stored under "_default"
get_thresholds_fallback(cm) ==
    IF cm.active_industry \in DOMAIN cm.thresholds
    THEN cm.thresholds[cm.active_industry]
    ELSE IF "_default" \in DOMAIN cm.thresholds THEN cm.thresholds["_default"]
    ELSE <<default_p80, default_p40>>

get_thresholds(cm) ==
    IF cm.active_industry \in DOMAIN cm.thresholds
    THEN cm.thresholds[cm.active_industry]
    ELSE <<default_p80, default_p40>>

\* a faulty variant whose upper boundary is exclusive
get_color_strict(cm, score) ==
    IF score = None THEN COLOR_DEFAULT
    ELSE LET t == get_thresholds(cm)
         IN  IF FCmp(score, t[1]) > 0 THEN COLOR_HIGH
             ELSE IF FGe(score, t[2]) THEN COLOR_MEDIUM
             ELSE COLOR_LOW

get_color(cm, score) ==
    IF score = None THEN COLOR_DEFAULT
    ELSE LET t == get_thresholds(cm)
         IN  IF FGe(score, t[1]) THEN COLOR_HIGH
             ELSE IF FGe(score, t[2]) THEN COLOR_MEDIUM
             ELSE COLOR_LOW

\* None >= p80 raises; the outcome of a lookup that ends so
TypeError == "TypeError"

\* a faulty variant without the guard for a null score
get_label_unguarded(cm, score) ==
    LET t == get_thresholds(cm)
    IN  IF score = None THEN TypeError
        ELSE IF FGe(score, t[1]) THEN LABEL_HIGH
        ELSE IF FGe(score, t[2]) THEN LABEL_MEDIUM
        ELSE LABEL_LOW

\* a faulty variant that tests the lower threshold first
get_label_lowfirst(cm, score) ==
    IF score = None THEN LABEL_LOW
    ELSE LET t == get_thresholds(cm)
         IN  IF FLt(score, t[2]) THEN LABEL_LOW
             ELSE IF FGe(score, t[1]) THEN LABEL_MEDIUM
             ELSE LABEL_HIGH

get_label(cm, score) ==
    IF score = None THEN LABEL_LOW
    ELSE LET t == get_thresholds(cm)
         IN  IF FGe(score, t[1]) THEN LABEL_HIGH
             ELSE IF FGe(score, t[2]) THEN LABEL_MEDIUM
             ELSE LABEL_LOW

get_color_and_label(cm, score) == <<get_color(cm, score), get_label(cm, score)>>

----------------------------------------------------------------------------
(* Python values: round and dict.get                                        *)

\* the integer nearest to num / 2^k (ties to even), q2 being floor(num / 2^(k-1))
RoundHalfEven(num, k, q2, q) ==
    IF BIsOdd(q2) /\ (BShl(q2, k - 1) # num \/ BIsOdd(q)) THEN BAdd(q, <<1>>) ELSE q

\* the integer nearest to num * 2^e
RoundScaled(num, e, q2) ==
    IF e >= 0 THEN BShl(num, e) ELSE RoundHalfEven(num, -e, q2, BShr(q2, 1))

\* round(x, ndigits) for 0 <= x * 10^ndigits < 2^53 and ndigits in 0..4: the
\* decimal of ndigits digits nearest to the exact value of x (ties to even),
\* as the float nearest to that decimal
RoundTo(num, e, pow) ==
    FDiv(FRound(RoundScaled(num, e, BShr(num, -e - 1)), 0), FFromNat(pow))

round(x, ndigits) ==
    IF FIsZero(x) THEN FZero ELSE RoundTo(BMulSmall(x.m, 10^ndigits), x.e, 10^ndigits)

\* d.get(key, default)
DictGet(d, key, default) == IF key \in DOMAIN d THEN d[key] ELSE default

----------------------------------------------------------------------------
(* utils/calculations.py: the treemap builders                              *)

ROOT_COLOR == "#132038"

\* the root node appended after the children instead of before them
TreemapData_rootlast(root_name, root_customdata, nodes) ==
    [labels     |-> [i \in DOMAIN nodes |-> nodes[i].label] \o <<root_name>>,
     parents    |-> [i \in DOMAIN nodes |-> root_name] \o <<"">>,
     values     |-> [i \in DOMAIN nodes |-> nodes[i].value] \o <<FZero>>,
     colors     |-> [i \in DOMAIN nodes |-> nodes[i].color] \o <<ROOT_COLOR>>,
     customdata |-> [i \in DOMAIN nodes |-> nodes[i].customdata] \o <<root_customdata>>]

\* the dict of five parallel lists a builder returns: the root node first,
\* then one node per child, in the order of `nodes`
TreemapData(root_name, root_customdata, nodes) ==
    [labels     |-> <<root_name>> \o [i \in DOMAIN nodes |-> nodes[i].label],
     parents    |-> <<"">> \o [i \in DOMAIN nodes |-> root_name],
     values     |-> <<FZero>> \o [i \in DOMAIN nodes |-> nodes[i].value],
     colors     |-> <<ROOT_COLOR>> \o [i \in DOMAIN nodes |-> nodes[i].color],
     customdata |-> <<root_customdata>> \o [i \in DOMAIN nodes |-> nodes[i].customdata]]

\* one pass of the loop over industry_data["functions"]
FunctionNode(cm, func, score) ==
    [label      |-> func.name,
     value      |-> get_function_unit_cost(func),
     color      |-> get_color(cm, score),
     customdata |-> <<round(score, 1), get_label(cm, score),
                      Len(func.subfunctions), func.id>>]

\* a builder that divides by a function's total cost without looking at it
build_function_treemap_data_unguarded(cm, data) ==
    IF \E i \in DOMAIN data.functions : FIsZero(get_function_unit_cost(data.functions[i]))
    THEN ZeroDivisionError
    ELSE TreemapData(data.industry, <<FZero, "">>,
             [i \in DOMAIN data.functions |->
                 FunctionNode(cm, data.functions[i],
                              get_function_automation_score(data.functions[i]))])

build_function_treemap_data(cm, data) ==
    TreemapData(data.industry, <<FZero, "">>,
        [i \in DOMAIN data.functions |->
            FunctionNode(cm, data.functions[i],
                         get_function_automation_score(data.functions[i]))])

\* a node sized by its score instead of its cost
SubfunctionNode_byscore(cm, sf, score) ==
    [label      |-> sf.name,
     value      |-> score,
     color      |-> get_color(cm, score),
     customdata |-> <<score, get_label(cm, score),
                      DictGet(sf, "fte_pct_headcount", FZero),
                      DictGet(sf, "cost_pct_revenue", FZero), sf.id>>]

\* one pass of the loop over function["subfunctions"]
SubfunctionNode(cm, sf, score) ==
    [label      |-> sf.name,
     value      |-> sf.unit_cost_per_1000,
     color      |-> get_color(cm, score),
     customdata |-> <<score, get_label(cm, score),
                      DictGet(sf, "fte_pct_headcount", FZero),
                      DictGet(sf, "cost_pct_revenue", FZero), sf.id>>]

build_subfunction_treemap_data(cm, func) ==
    TreemapData(func.name, <<FZero, "", FZero, FZero>>,
        [j \in DOMAIN func.subfunctions |->
            SubfunctionNode(cm, func.subfunctions[j],
                            get_automation_score(func.subfunctions[j].automation_scores))])

----------------------------------------------------------------------------
(* components/insights.py: the summaries.  A summary is modelled by the     *)
(* values it computes and hands to the page elements, under the names the   *)
(* code gives them; no company revenue is given (revenue_m is None).        *)

\* sorted(xs, key=lambda x: x[key], reverse=reverse): a stable sort, by
\* insertion of each element behind those it need not precede; reverse keeps
\* equal elements in their input order as well
RECURSIVE InsertBy(_, _, _, _)
InsertBy(x, xs, key, reverse) ==
    IF xs = <<>> THEN <<x>>
    ELSE IF (IF reverse THEN FLt(Head(xs)[key], x[key]) ELSE FLt(x[key], Head(xs)[key]))
    THEN <<x>> \o xs
    ELSE <<Head(xs)>> \o InsertBy(x, Tail(xs), key, reverse)

\* a sort that puts equal elements in reverse input order
RECURSIVE sorted_unstable(_, _, _)
sorted_unstable(xs, key, reverse) ==
    IF xs = <<>> THEN <<>>
    ELSE InsertBy(Head(xs), sorted_unstable(Tail(xs), key, reverse), key, reverse)

RECURSIVE sorted(_, _, _)
sorted(xs, key, reverse) ==
    IF xs = <<>> THEN <<>>
    ELSE InsertBy(xs[Len(xs)], sorted(SubSeq(xs, 1, Len(xs) - 1), key, reverse),
                  key, reverse)

\* xs[:n]
Take(xs, n) == SubSeq(xs, 1, IF Len(xs) < n THEN Len(xs) ELSE n)

\* sum(...) / len(xs) of a non-empty list
Mean(xs) == FDiv(sum(xs), FFromNat(Len(xs)))

SfScores(sfs) == [j \in DOMAIN sfs |-> sfs[j].automation_score]
SfCosts(sfs) == [j \in DOMAIN sfs |-> sfs[j].cost_pct_revenue]

\* func_stats: per function the mean of its subfunction scores and the sum of
\* their costs, both rounded to two places
FuncStats(functions) ==
    [i \in DOMAIN functions |->
        [name     |-> functions[i].name,
         score    |-> IF functions[i].subfunctions = <<>> THEN FZero
                      ELSE round(Mean(SfScores(functions[i].subfunctions)), 2),
         cost     |-> round(sum(SfCosts(functions[i].subfunctions)), 2),
         abs_cost |-> None]]

NoData == [empty |-> "No data available."]

\* max and min return the first of the largest and of the smallest, which the
\* stable sorts put first
L1Summary(cm, func_stats) ==
    [overall_avg    |-> round(Mean([i \in DOMAIN func_stats |-> func_stats[i].score]), 2),
     total_cost_sum |-> round(sum([i \in DOMAIN func_stats |-> func_stats[i].cost]), 1),
     top            |-> Head(sorted(func_stats, "score", TRUE)),
     bottom         |-> Head(sorted(func_stats, "score", FALSE)),
     opportunities  |-> Take(sorted(func_stats, "score", TRUE), 3),
     pie_labels     |-> [i \in DOMAIN func_stats |-> func_stats[i].name],
     pie_values     |-> [i \in DOMAIN func_stats |-> func_stats[i].cost],
     pie_colors     |-> [i \in DOMAIN func_stats |-> get_color(cm, func_stats[i].score)]]

build_l1_summary(cm, data) ==
    IF data.functions = <<>> THEN NoData
    ELSE L1Summary(cm, FuncStats(data.functions))

\* the function overview (no subfunction selected)
build_l2_summary(cm, func) ==
    IF func.subfunctions = <<>> THEN [empty |-> "No subfunctions available."]
    ELSE [avg_score     |-> round(Mean(SfScores(func.subfunctions)), 2),
          top_sf        |-> Head(sorted(func.subfunctions, "automation_score", TRUE)),
          bottom_sf     |-> Head(sorted(func.subfunctions, "automation_score", FALSE)),
          total_cost    |-> round(sum(SfCosts(func.subfunctions)), 2),
          opportunities |-> Take(sorted(func.subfunctions, "automation_score", TRUE), 3),
          pie_labels    |-> [j \in DOMAIN func.subfunctions |-> func.subfunctions[j].name],
          pie_values    |-> SfCosts(func.subfunctions),
          pie_colors    |-> [j \in DOMAIN func.subfunctions |->
                                get_color(cm, func.subfunctions[j].automation_score)]]

\* all_sfs: every subfunction of the industry, function by function
RECURSIVE AllSfs(_)
AllSfs(functions) ==
    IF functions = <<>> THEN <<>>
    ELSE [j \in DOMAIN Head(functions).subfunctions |->
             [name     |-> Head(functions).subfunctions[j].name,
              l1       |-> Head(functions).name,
              score    |-> Head(functions).subfunctions[j].automation_score,
              cost     |-> Head(functions).subfunctions[j].cost_pct_revenue,
              abs_cost |-> DictGet(Head(functions).subfunctions[j], "absolute_cost_m", None)]]
         \o AllSfs(Tail(functions))

L2OverviewSummary(all_sfs) ==
    IF all_sfs = <<>> THEN NoData
    ELSE [total_sfs   |-> Len(all_sfs),
          overall_avg |-> round(Mean([i \in DOMAIN all_sfs |-> all_sfs[i].score]), 2),
          total_cost  |-> round(sum([i \in DOMAIN all_sfs |-> all_sfs[i].cost]), 1),
          top         |-> Head(sorted(all_sfs, "score", TRUE)),
          bottom      |-> Head(sorted(all_sfs, "score", FALSE)),
          top5        |-> Take(sorted(all_sfs, "score", TRUE), 5),
          bottom5     |-> Take(sorted(all_sfs, "score", FALSE), 5)]

build_l2_overview_summary(data) == L2OverviewSummary(AllSfs(data.functions))

----------------------------------------------------------------------------
(* The program as a state machine.  The class attributes of ColorMapper are *)
(* the state; `function` is the function dict the aggregation calls are     *)
(* made on and `industry_data` the industry dict the layout and summary     *)
(* calls are made on; `df` is the workbook as DataLoader reads it and       *)
(* `cache` is DataLoader._cache; `last` records the most recent call and    *)
(* what it returned.                                                        *)

VARIABLES function, industry_data, df, cache, thresholds, active_industry, last,
          l3_df, l3_cache, page, requests

vars == <<function, industry_data, df, cache, thresholds, active_industry, last,
          l3_df, l3_cache, page, requests>>

\* the task workbook and cache of L3DataLoader and the stores of the L3 page
task_page == <<l3_df, l3_cache, page>>

\* what a call on the calculator or the colour mapper leaves alone
inputs == <<function, industry_data, df, cache, task_page, requests>>

\* the depth of the inputs explored
MaxSubs == 3

\* unit costs and scores a workbook row can carry
UnitCosts == {FZero, FRatio(1, 10), FRatio(2, 10)}
ScoreValues == {FFromNat(1), FRatio(25, 10)}

Subfunctions == {Subfunction(c, s) : c \in UnitCosts, s \in ScoreValues}

Functions ==
    {[subfunctions |-> sfs] : sfs \in UNION {[1..n -> Subfunctions] : n \in 0..MaxSubs}}

NoCall == [op |-> "none"]

\* ColorMapper as the class body leaves it
InitColorMapper ==
    /\ thresholds = EmptyDict
    /\ active_industry = "_default"

\* the L3 page as its layout leaves it (the stores l3-selected-index and
\* l3-active-tab hold None and "summary"), no URL given and nothing rendered
\* yet; an index i held by the store is kept as [int |-> i].  `subfunction`
\* is what the subfunction page shows: its URL parameters and its figure
NoPage ==
    [search |-> None, cards |-> <<>>, selected_index |-> None,
     active_tab |-> "summary", panel |-> None, subfunction |-> None]

\* no task workbook, no L3 page open
NoL3 ==
    /\ l3_df = <<>>
    /\ l3_cache = EmptyDict
    /\ page = NoPage

\* no industry loaded: an empty workbook and an empty cache
NoIndustry ==
    /\ industry_data = None
    /\ df = <<>>
    /\ cache = EmptyDict
    /\ NoL3
    /\ requests = <<>>

InitAggregation ==
    /\ function \in Functions
    /\ NoIndustry
    /\ InitColorMapper
    /\ last = NoCall

GetFunctionUnitCost ==
    /\ last' = [op |-> "get_function_unit_cost",
                ret |-> get_function_unit_cost(function)]
    /\ UNCHANGED <<inputs, thresholds, active_industry>>

GetFunctionAutomationScore ==
    /\ last' = [op |-> "get_function_automation_score",
                ret |-> get_function_automation_score(function)]
    /\ UNCHANGED <<inputs, thresholds, active_industry>>

NextAggregation == GetFunctionUnitCost \/ GetFunctionAutomationScore

SpecAggregation == InitAggregation /\ [][NextAggregation]_vars

----------------------------------------------------------------------------
(* The calibration calls (SpecCalibrator)                                   *)

\* the length of the score batches explored
MaxBatch == 1

\* the keys calibrations are stored under, and the keys made active
\* (l3_breakdown activates "<industry>_l3", which nothing may have calibrated)
CalibrateKeys == {"_default", "bfsi"}
ActiveKeys == CalibrateKeys \cup {"bfsi_l3"}

\* the scores 1.0 .. 10.0
ExampleScores == [i \in 1..10 |-> FFromNat(i)]

\* a batch with nothing to calibrate on, and an unsorted batch with a gap
NullScores == <<None, NaN>>
MixedScores == <<FFromNat(4), NaN, FFromNat(3)>>

BatchValues == {None, FFromNat(3), FFromNat(4)}

ScoreLists ==
    {ExampleScores, NullScores, MixedScores}
        \cup UNION {[1..n -> BatchValues] : n \in 0..MaxBatch}

QueryScores ==
    {None, FFromNat(2), FFromNat(3), FFromNat(4), FFromNat(5), FFromNat(9)}

\* the class attributes of ColorMapper
CM == [thresholds |-> thresholds, active_industry |-> active_industry]

InitCalibrator ==
    /\ function = [subfunctions |-> <<>>]
    /\ NoIndustry
    /\ InitColorMapper
    /\ last = NoCall

Calibrate(scores, industry_key) ==
    \E cm \in {calibrate(CM, scores, industry_key)} :
        /\ thresholds' = cm.thresholds
        /\ active_industry' = cm.active_industry
        /\ last' = [op |-> "calibrate", scores |-> scores, key |-> industry_key,
                    again |-> /\ last.op = "calibrate"
                              /\ last.scores = scores
                              /\ last.key = industry_key,
                    ret |-> None]
        /\ UNCHANGED inputs

SetActiveIndustry(industry_key) ==
    \E cm \in {set_active_industry(CM, industry_key)} :
        /\ thresholds' = cm.thresholds
        /\ active_industry' = cm.active_industry
        /\ last' = [op |-> "set_active_industry", key |-> industry_key,
                    ret |-> None]
        /\ UNCHANGED inputs

GetColorAndLabel(score) ==
    /\ last' = [op |-> "get_color_and_label", score |-> score,
                ret |-> get_color_and_label(CM, score)]
    /\ UNCHANGED <<inputs, thresholds, active_industry>>

NextCalibrator ==
    \/ \E scores \in ScoreLists, k \in CalibrateKeys : Calibrate(scores, k)
    \/ \E k \in ActiveKeys : SetActiveIndustry(k)
    \/ \E score \in QueryScores : GetColorAndLabel(score)

SpecCalibrator == InitCalibrator /\ [][NextCalibrator]_vars

----------------------------------------------------------------------------
(* The layout calls (SpecLayout): the treemap builders on an industry dict, *)
(* between the ColorMapper calls the pages make around them.                *)

\* DataLoader._to_id and str.lower on the names that occur
to_id(name) ==
    CASE name = "Finance" -> "finance"
      [] name = "Risk & Audit" -> "risk_audit"
      [] name = "Claims" -> "claims"
      [] name = "IT" -> "it"
      [] name = "Payroll" -> "payroll"
      [] name = "Tax (Direct)" -> "tax_direct"
      [] name = "Audit" -> "audit"
      [] name = "KYC" -> "kyc"

\* str.lower on the names that occur: the industries, the function and
\* subfunction names, the task names and their spellings in other letter
\* case; every other string that occurs is in lower case already
lower(s) ==
    CASE s = "BFSI" -> "bfsi"
      [] s = "Retail" -> "retail"
      [] s = "Pharma" -> "pharma"
      [] s \in {"Finance", "FINANCE"} -> "finance"
      [] s \in {"Payroll", "PAYROLL"} -> "payroll"
      [] s = "Audit" -> "audit"
      [] s = "Risk & Audit" -> "risk & audit"
      [] s = "Claims" -> "claims"
      [] s = "IT" -> "it"
      [] s = "Tax (Direct)" -> "tax (direct)"
      [] s = "KYC" -> "kyc"
      [] s \in {"Invoice matching", "INVOICE MATCHING"} -> "invoice matching"
      [] s = "Payment runs" -> "payment runs"
      [] s = "Vendor onboarding" -> "vendor onboarding"
      [] s = "Dispute handling" -> "dispute handling"
      [] s = "Sampling" -> "sampling"
      [] OTHER -> s

\* str.strip on the names that occur
strip(s) == IF s = "BFSI " THEN "BFSI" ELSE s

\* the subfunction dict load_industry makes of a row (no company revenue given)
SubfunctionRow(l2_name, cost, score) ==
    [id                 |-> to_id(l2_name),
     name               |-> l2_name,
     unit_cost_per_1000 |-> cost,
     cost_pct_revenue   |-> cost,
     absolute_cost_m    |-> None,
     fte_pct_headcount  |-> FZero,
     automation_score   |-> score,
     automation_scores  |-> [score |-> score]]

\* the function dict load_industry makes of an L1 group
FunctionGroup(l1_name, subfunctions) ==
    [id |-> to_id(l1_name), name |-> l1_name, subfunctions |-> subfunctions]

IndustryData(industry, functions) ==
    [industry |-> industry, functions |-> functions, revenue_m |-> None]

\* the width of the industries explored: functions per industry, and
\* subfunctions per function
MaxFuncs == 1
MaxRows == 2

FunctionNames == <<"Finance", "Risk & Audit", "Claims", "IT">>
SubfunctionNames == <<"Payroll", "Tax (Direct)", "Audit", "KYC">>

\* the (cost, score) pairs of the rows
RowValues == {<<FRatio(1, 10), FFromNat(1)>>, <<FRatio(2, 10), FRatio(25, 10)>>}

\* a function of the given name with one subfunction per (cost, score) pair
FunctionOf(l1_name, rows) ==
    FunctionGroup(l1_name,
        [j \in DOMAIN rows |-> SubfunctionRow(SubfunctionNames[j], rows[j][1], rows[j][2])])

\* an industry with one function per list of (cost, score) pairs
IndustryOf(groups) ==
    IndustryData("BFSI", [i \in DOMAIN groups |-> FunctionOf(FunctionNames[i], groups[i])])

\* the spec's worked example: costs [10, 20] with scores [2, 4], and costs
\* [5, 5] with scores [3, 3]
ExampleIndustry ==
    IndustryOf(<< <<<<FFromNat(10), FFromNat(2)>>, <<FFromNat(20), FFromNat(4)>>>>,
                  <<<<FFromNat(5), FFromNat(3)>>, <<FFromNat(5), FFromNat(3)>>>> >>)

\* a function whose subfunctions all cost nothing, and one without subfunctions
ZeroCostIndustry ==
    IndustryOf(<< <<<<FZero, FFromNat(1)>>, <<FZero, FRatio(25, 10)>>>>, <<>> >>)

\* scores that tie: within the first function, between the functions, and
\* across the subfunctions of the industry, with more ties than a list holds
TiesIndustry ==
    IndustryOf(<< <<<<FRatio(1, 10), FRatio(25, 10)>>, <<FRatio(2, 10), FFromNat(4)>>,
                    <<FRatio(1, 10), FRatio(25, 10)>>, <<FRatio(1, 10), FRatio(25, 10)>>>>,
                  <<<<FRatio(1, 10), FRatio(25, 10)>>>>,
                  <<<<FRatio(2, 10), FRatio(25, 10)>>>>,
                  <<<<FRatio(1, 10), FRatio(25, 10)>>>> >>)

\* means and costs with more than two decimal places: a cost of 1.254, and
\* functions whose scores average 4/3
ThirdsIndustry ==
    IndustryOf(<< <<<<FRatio(1254, 1000), FFromNat(2)>>>>,
                  <<<<FZero, FFromNat(1)>>, <<FZero, FFromNat(1)>>, <<FZero, FFromNat(2)>>>>,
                  <<<<FZero, FFromNat(1)>>, <<FZero, FFromNat(1)>>, <<FZero, FFromNat(2)>>>> >>)

Industries ==
    {IndustryOf(groups) :
        groups \in UNION {[1..n -> UNION {[1..k -> RowValues] : k \in 0..MaxRows}] :
                             n \in 0..MaxFuncs}}
        \cup {ExampleIndustry, ZeroCostIndustry, TiesIndustry, ThirdsIndustry}

\* the scores load_industry and build_l2_overview_figure calibrate on: every
\* subfunction score of the industry, function by function
RECURSIVE all_scores(_)
all_scores(functions) ==
    IF functions = <<>> THEN <<>>
    ELSE [j \in DOMAIN Head(functions).subfunctions |->
             Head(functions).subfunctions[j].automation_score]
         \o all_scores(Tail(functions))

\* the keys the pages of the industry calibrate and activate: its own
\* (load_industry) and "<industry>_l3" (the L3 page)
IndustryKeys == {lower(industry_data.industry), lower(industry_data.industry) \o "_l3"}

InitLayout ==
    /\ function = [subfunctions |-> <<>>]
    /\ industry_data \in Industries
    /\ df = <<>>
    /\ cache = EmptyDict
    /\ NoL3
    /\ requests = <<>>
    /\ InitColorMapper
    /\ last = NoCall

BuildFunctionTreemapData ==
    /\ last' = [op |-> "build_function_treemap_data",
                ret |-> build_function_treemap_data(CM, industry_data)]
    /\ UNCHANGED <<inputs, thresholds, active_industry>>

BuildSubfunctionTreemapData(i) ==
    /\ last' = [op |-> "build_subfunction_treemap_data", i |-> i,
                ret |-> build_subfunction_treemap_data(CM, industry_data.functions[i])]
    /\ UNCHANGED <<inputs, thresholds, active_industry>>

BuildL1Summary ==
    /\ last' = [op |-> "build_l1_summary",
                ret |-> build_l1_summary(CM, industry_data)]
    /\ UNCHANGED <<inputs, thresholds, active_industry>>

BuildL2Summary(i) ==
    /\ last' = [op |-> "build_l2_summary", i |-> i,
                ret |-> build_l2_summary(CM, industry_data.functions[i])]
    /\ UNCHANGED <<inputs, thresholds, active_industry>>

BuildL2OverviewSummary ==
    /\ last' = [op |-> "build_l2_overview_summary",
                ret |-> build_l2_overview_summary(industry_data)]
    /\ UNCHANGED <<inputs, thresholds, active_industry>>

NextLayout ==
    \/ Calibrate(all_scores(industry_data.functions), lower(industry_data.industry))
    \/ \E k \in IndustryKeys : SetActiveIndustry(k)
    \/ BuildFunctionTreemapData
    \/ \E i \in DOMAIN industry_data.functions : BuildSubfunctionTreemapData(i)
    \/ BuildL1Summary
    \/ \E i \in DOMAIN industry_data.functions : BuildL2Summary(i)
    \/ BuildL2OverviewSummary

SpecLayout == InitLayout /\ [][NextLayout]_vars

----------------------------------------------------------------------------
(* utils/l3_data_loader.py and components/l3_breakdown.py: the task (L3)    *)
(* page (SpecL3Page).  `l3_df` is the frame of the task workbook, a list of *)
(* rows; `l3_cache` holds the task lists L3DataLoader caches by key; `page` *)
(* holds what the browser keeps of the page: the URL parameters, the cards  *)
(* rendered, the two stores and the content of the side panel.  A card and  *)
(* a panel are kept as the values their html is made of: the task dict, the *)
(* tier colour and the tier label; the title and the back link, which are   *)
(* made of the URL parameters alone, are left out.                          *)

DIMENSION_NAMES ==
    <<"Data Availability", "Task Pattern Density", "Error Tolerance",
      "Regulatory Complexity", "Implementation Barriers">>

\* the dict get_l3_functions makes of a row
L3Function(row) ==
    [name        |-> strip(row.l3),
     description |-> strip(row.description),
     ai_score    |-> row.ai_score,
     dimensions  |-> [d \in DOMAIN DIMENSION_NAMES |->
                        [name   |-> DIMENSION_NAMES[d],
                         score  |-> row.dimensions[d].score,
                         label  |-> row.dimensions[d].label,
                         reason |-> row.dimensions[d].reason]]]

\* df[mask]: the rows whose stripped, lower-cased industry, l1 and l2 cells
\* are the stripped, lower-cased parameters, in frame order
RECURSIVE SelectTasks(_, _)
SelectTasks(rows, search) ==
    IF rows = <<>> THEN <<>>
    ELSE (IF /\ lower(strip(Head(rows).industry)) = lower(strip(search.industry))
             /\ lower(strip(Head(rows).l1)) = lower(strip(search.l1))
             /\ lower(strip(Head(rows).l2)) = lower(strip(search.l2))
          THEN <<L3Function(Head(rows))>> ELSE <<>>)
         \o SelectTasks(Tail(rows), search)

\* f"l3_{industry}_{l1}_{l2}"
L3CacheKey(search) == "l3_" \o search.industry \o "_" \o search.l1 \o "_" \o search.l2

\* the list get_l3_functions returns: the cached one, or the one it builds
\* (and caches) of the frame
get_l3_functions(c, rows, search) ==
    IF L3CacheKey(search) \in DOMAIN c THEN c[L3CacheKey(search)]
    ELSE SelectTasks(rows, search)

\* next((l for l in l3s if l["name"].lower() == l3_name.lower()), None)
FindName(l3s, l3_name) ==
    IF \E i \in DOMAIN l3s : lower(l3s[i].name) = lower(l3_name)
    THEN l3s[CHOOSE i \in DOMAIN l3s :
                 /\ lower(l3s[i].name) = lower(l3_name)
                 /\ \A k \in 1..(i - 1) : lower(l3s[k].name) # lower(l3_name)]
    ELSE None

\* the task get_l3_by_name returns; the list it is looked up in is cached by
\* get_l3_functions
get_l3_by_name(c, rows, search, l3_name) ==
    FindName(get_l3_functions(c, rows, search), l3_name)

\* (p80, p40) of the ai scores of the list, (4.0, 3.0) for an empty list
compute_thresholds(l3s) ==
    IF l3s = <<>> THEN <<FFromNat(4), FFromNat(3)>>
    ELSE <<percentile([i \in DOMAIN l3s |-> l3s[i].ai_score], 80),
           percentile([i \in DOMAIN l3s |-> l3s[i].ai_score], 40)>>

score_color(score, p80, p40) ==
    IF FGe(score, p80) THEN "#1A7A4A"
    ELSE IF FGe(score, p40) THEN "#52B788"
    ELSE "#F4C542"

potential_label(score, p80, p40) ==
    IF FGe(score, p80) THEN "High"
    ELSE IF FGe(score, p40) THEN "Medium"
    ELSE "Low"

\* the card of a task, with the index its click reports
l3_card(l3, index, p80, p40) ==
    [index     |-> index,
     task      |-> l3,
     color     |-> score_color(l3.ai_score, p80, p40),
     potential |-> potential_label(l3.ai_score, p80, p40)]

\* the placeholder rendered in place of the cards of an empty list
NoTasks == [empty |-> "No L3 data found for this subfunction."]

build_panel_default(l3_count, l2_name) == [title |-> l2_name, count |-> l3_count]

build_panel_selected(l3, p80, p40) ==
    [task  |-> l3,
     color |-> score_color(l3.ai_score, p80, p40),
     label |-> potential_label(l3.ai_score, p80, p40)]

\* dash.no_update
no_update == [no_update |-> TRUE]

\* the number of tasks of the subfunction shown
MaxTasks == 3

TaskNames == <<"Invoice matching", "Payment runs", "Vendor onboarding", "Dispute handling">>
TaskScores == {FFromNat(1), FFromNat(3), FRatio(45, 10)}

\* a row of the task workbook: the cells of a task of the given subfunction
TaskRow(l2, l3_name, ai_score) ==
    [industry |-> "BFSI", l1 |-> "Finance", l2 |-> l2, l3 |-> l3_name,
     description |-> "", ai_score |-> ai_score,
     dimensions |-> [d \in DOMAIN DIMENSION_NAMES |->
                        [score |-> FFromNat(d), label |-> "", reason |-> ""]]]

\* the task workbooks explored: a task of another subfunction, then up to
\* MaxTasks tasks of the subfunction shown, with every assignment of scores
TaskWorkbooks ==
    {<<TaskRow("Audit", "Sampling", FFromNat(3))>>
        \o [j \in DOMAIN scores |-> TaskRow("Payroll", TaskNames[j], scores[j])] :
        scores \in UNION {[1..n -> TaskScores] : n \in 0..MaxTasks}}

\* the URL parameters of the page shown
Search == [industry |-> "bfsi", l1 |-> "Finance", l2 |-> "Payroll"]

\* the same parameters, and a spelling of them in another letter case
Searches == {Search, [industry |-> "BFSI", l1 |-> "finance", l2 |-> "PAYROLL"]}

\* the task names asked for by name
L3Names == {"INVOICE MATCHING", "no such task"}

InitL3Page ==
    /\ function = [subfunctions |-> <<>>]
    /\ industry_data = None
    /\ df = <<>>
    /\ cache = EmptyDict
    /\ InitColorMapper
    /\ last = NoCall
    /\ l3_df \in TaskWorkbooks
    /\ l3_cache = EmptyDict
    /\ page \in {[NoPage EXCEPT !.search = search] : search \in Searches}
    /\ requests = <<>>

\* load_l3_page: the cards of the tasks ranked by ai score, highest first,
\* numbered in that order, and the default panel; the "<industry>_l3" key is
\* made the active calibration key
LoadL3Page ==
    \E l3s \in {get_l3_functions(l3_cache, l3_df, page.search)} :
    \E ranked \in {sorted(l3s, "ai_score", TRUE)} :
    \E t \in {compute_thresholds(ranked)} :
        /\ l3_cache' = DictSet(l3_cache, L3CacheKey(page.search), l3s)
        /\ active_industry' =
               set_active_industry(CM, lower(strip(page.search.industry)) \o "_l3")
                   .active_industry
        /\ page' = [page EXCEPT
                       !.cards = IF ranked = <<>> THEN <<NoTasks>>
                                 ELSE [i \in DOMAIN ranked |->
                                          l3_card(ranked[i], i - 1, t[1], t[2])],
                       !.panel = build_panel_default(Len(ranked), page.search.l2)]
        /\ last' = [op |-> "load_l3_page", ret |-> None]
        /\ UNCHANGED <<function, industry_data, df, cache, thresholds, l3_df, requests>>

\* on_card_click for a click on the card that reports `index`
OnCardClick(index) ==
    /\ \E i \in DOMAIN page.cards :
           "index" \in DOMAIN page.cards[i] /\ page.cards[i].index = index
    /\ \E l3s \in {get_l3_functions(l3_cache, l3_df, page.search)} :
       \E t \in {compute_thresholds(l3s)} :
           /\ l3_cache' = DictSet(l3_cache, L3CacheKey(page.search), l3s)
           /\ page' = IF index >= Len(l3s) THEN page
                      ELSE [page EXCEPT
                               !.panel = build_panel_selected(l3s[index + 1], t[1], t[2]),
                               !.active_tab = "summary",
                               !.selected_index = [int |-> index]]
           /\ last' = [op |-> "on_card_click", index |-> index,
                       ret |-> IF index >= Len(l3s) THEN no_update ELSE None]
    /\ UNCHANGED <<function, industry_data, df, cache, thresholds, active_industry,
                   l3_df, requests>>

\* switch_l3_tab for a click on one of the two tab buttons, which are part of
\* the layout: the click may come before load_l3_page has rendered anything
SwitchL3Tab(triggered) ==
    /\ \E l3s \in {get_l3_functions(l3_cache, l3_df, page.search)} :
       \E t \in {compute_thresholds(l3s)} :
       \E selected \in {/\ page.selected_index # None
                        /\ page.selected_index.int < Len(l3s)} :
           /\ l3_cache' = DictSet(l3_cache, L3CacheKey(page.search), l3s)
           /\ page' =
                  IF triggered = "l3-tab-summary"
                  THEN [page EXCEPT
                           !.panel = IF selected
                                     THEN build_panel_selected(
                                              l3s[page.selected_index.int + 1], t[1], t[2])
                                     ELSE build_panel_default(Len(l3s), page.search.l2),
                           !.active_tab = "summary"]
                  ELSE [page EXCEPT
                           !.panel = [ask_ai |-> IF selected
                                                 THEN l3s[page.selected_index.int + 1].name
                                                 ELSE page.search.l2],
                           !.active_tab = "askai"]
           /\ last' = [op |-> "switch_l3_tab", triggered |-> triggered, ret |-> None]
    /\ UNCHANGED <<function, industry_data, df, cache, thresholds, active_industry,
                   l3_df, requests>>

\* L3DataLoader.get_l3_by_name
GetL3ByName(search, l3_name) ==
    /\ l3_cache' = DictSet(l3_cache, L3CacheKey(search),
                           get_l3_functions(l3_cache, l3_df, search))
    /\ last' = [op |-> "get_l3_by_name", search |-> search, l3_name |-> l3_name,
                ret |-> get_l3_by_name(l3_cache, l3_df, search, l3_name)]
    /\ UNCHANGED <<function, industry_data, df, cache, thresholds, active_industry,
                   l3_df, page, requests>>

NextL3Page ==
    \/ LoadL3Page
    \/ \E search \in Searches, l3_name \in L3Names : GetL3ByName(search, l3_name)
    \/ \E index \in 0..(MaxTasks - 1) : OnCardClick(index)
    \/ \E triggered \in {"l3-tab-summary", "l3-tab-askai"} : SwitchL3Tab(triggered)

SpecL3Page == InitL3Page /\ [][NextL3Page]_vars

----------------------------------------------------------------------------
(* The loader calls (SpecLoader): DataLoader.load_industry on a workbook,   *)
(* and the pages' calls on the record it returned.  `df` is the frame       *)
(* _load_excel returns, a list of rows; `cache` holds the records cached by *)
(* key (the frame itself, cached under "_df", is `df`).                     *)

\* df[df["Industry"].str.strip() == industry]
RECURSIVE SelectRows(_, _)
SelectRows(rows, industry) ==
    IF rows = <<>> THEN <<>>
    ELSE (IF strip(Head(rows).industry) = industry THEN <<Head(rows)>> ELSE <<>>)
         \o SelectRows(Tail(rows), industry)

\* groupby("L1 Function", sort=False): the groups in the order their keys
\* first appear, the rows of a group in frame order
AddToGroup(groups, row) ==
    IF \E g \in DOMAIN groups : groups[g][1].l1 = row.l1
    THEN [g \in DOMAIN groups |->
             IF groups[g][1].l1 = row.l1 THEN Append(groups[g], row) ELSE groups[g]]
    ELSE Append(groups, <<row>>)

RECURSIVE GroupBy(_, _)
GroupBy(rows, groups) ==
    IF rows = <<>> THEN groups ELSE GroupBy(Tail(rows), AddToGroup(groups, Head(rows)))

\* the functions list load_industry builds of the rows of the industry
LoadFunctions(groups) ==
    [g \in DOMAIN groups |->
        FunctionGroup(strip(groups[g][1].l1),
            [j \in DOMAIN groups[g] |->
                SubfunctionRow(strip(groups[g][j].l2), groups[g][j].cost, groups[g][j].score)])]

\* f"{industry.lower()}_{revenue_m}" without a revenue
CacheKey(industry) == lower(industry) \o "_None"

\* a score cell that is no number: an empty cell (None) or a text
Malformed(cell) == cell = None \/ "text" \in DOMAIN cell

\* a faulty variant of _load_excel that fills the scores that are no numbers
\* with 0.0
load_excel_zero(raw) ==
    [i \in DOMAIN raw |->
        [raw[i] EXCEPT !.cost = IF \A k \in DOMAIN raw : FLt(raw[k].cost, One)
                                THEN FMul(raw[i].cost, Hundred)
                                ELSE raw[i].cost,
                       !.score = IF Malformed(raw[i].score) THEN FZero
                                 ELSE raw[i].score]]

\* _load_excel: the frame made of the cells of the workbook.  The costs are
\* multiplied by 100 when the largest of them is below 1.0; a score cell
\* that is no number becomes NaN (to_numeric, errors="coerce") and then 1.0
\* (fillna)
load_excel(raw) ==
    [i \in DOMAIN raw |->
        [raw[i] EXCEPT !.cost = IF \A k \in DOMAIN raw : FLt(raw[k].cost, One)
                                THEN FMul(raw[i].cost, Hundred)
                                ELSE raw[i].cost,
                       !.score = IF Malformed(raw[i].score) THEN FFromNat(1)
                                 ELSE raw[i].score]]

\* load_industry without a cached record: the record built, cached, and the
\* colour mapper calibrated on its scores and set to its key
LoadMiss(c, cm, industry, result) ==
    [ret   |-> result,
     cache |-> DictSet(c, CacheKey(industry), result),
     cm    |-> set_active_industry(
                   calibrate(cm, all_scores(result.functions), lower(industry)),
                   lower(industry))]

\* DataLoader.load_industry(industry) on the cache c, the colour mapper cm and
\* the frame rows: what it returns, and the cache and the colour mapper it
\* leaves
load_industry(c, cm, rows, industry) ==
    IF CacheKey(industry) \in DOMAIN c
    THEN [ret |-> c[CacheKey(industry)], cache |-> c, cm |-> cm]
    ELSE LoadMiss(c, cm, industry,
             IndustryData(industry,
                 LoadFunctions(GroupBy(SelectRows(rows, strip(industry)), <<>>))))

\* next((x for x in xs if x["id"] == id), None): the first with the id
FindId(xs, id) ==
    IF \E i \in DOMAIN xs : xs[i].id = id
    THEN xs[CHOOSE i \in DOMAIN xs :
                xs[i].id = id /\ \A k \in 1..(i - 1) : xs[k].id # id]
    ELSE None

\* get_function on what load_industry returned and left
FunctionIn(loaded, function_id) ==
    [loaded EXCEPT !.ret = FindId(loaded.ret.functions, function_id)]

get_function(c, cm, rows, industry, function_id) ==
    FunctionIn(load_industry(c, cm, rows, industry), function_id)

\* get_subfunction on what get_function returned and left
SubfunctionIn(found, subfunction_id) ==
    [found EXCEPT !.ret = IF found.ret = None THEN None
                          ELSE FindId(found.ret.subfunctions, subfunction_id)]

get_subfunction(c, cm, rows, industry, function_id, subfunction_id) ==
    SubfunctionIn(get_function(c, cm, rows, industry, function_id), subfunction_id)

\* the cells of the workbooks explored: two industries, a function whose rows
\* are not adjacent, an industry cell with a trailing blank, a second row
\* (another role) of a subfunction, whose score cell holds a text, and a row
\* whose score cell is empty
WorkbookRows ==
    << [industry |-> "BFSI", l1 |-> "Finance", l2 |-> "Payroll",
        cost |-> FRatio(1, 10), score |-> FFromNat(1)],
       [industry |-> "BFSI", l1 |-> "Risk & Audit", l2 |-> "Audit",
        cost |-> FRatio(2, 10), score |-> FRatio(25, 10)],
       [industry |-> "BFSI ", l1 |-> "Finance", l2 |-> "Tax (Direct)",
        cost |-> FRatio(2, 10), score |-> FRatio(25, 10)],
       [industry |-> "Retail", l1 |-> "Finance", l2 |-> "Payroll",
        cost |-> FRatio(2, 10), score |-> FFromNat(4)],
       [industry |-> "BFSI", l1 |-> "Finance", l2 |-> "Payroll",
        cost |-> FRatio(15, 10), score |-> [text |-> "n/a"]],
       [industry |-> "Retail", l1 |-> "Finance", l2 |-> "KYC",
        cost |-> FRatio(1, 10), score |-> None] >>

\* the workbooks explored: the first rows of these, none to all
Workbooks == {SubSeq(WorkbookRows, 1, b) : b \in 0..Len(WorkbookRows)}

InitLoader ==
    /\ function = [subfunctions |-> <<>>]
    /\ industry_data = None
    /\ df \in {load_excel(raw) : raw \in Workbooks}
    /\ cache = EmptyDict
    /\ InitColorMapper
    /\ last = NoCall
    /\ NoL3
    /\ requests = <<>>

\* a cached record is returned as it is; otherwise the record is built of the
\* rows of the industry, the colour mapper calibrated on its scores and set to
\* its key, and the record cached
LoadIndustry(industry) ==
    \E loaded \in {load_industry(cache, CM, df, industry)} :
        /\ cache' = loaded.cache
        /\ thresholds' = loaded.cm.thresholds
        /\ active_industry' = loaded.cm.active_industry
        /\ industry_data' = loaded.ret
        /\ last' = [op |-> "load_industry", industry |-> industry,
                    cached |-> CacheKey(industry) \in DOMAIN cache,
                    ret |-> loaded.ret]
        /\ UNCHANGED <<function, df, task_page, requests>>

GetFunction(industry, function_id) ==
    \E found \in {get_function(cache, CM, df, industry, function_id)} :
        /\ cache' = found.cache
        /\ thresholds' = found.cm.thresholds
        /\ active_industry' = found.cm.active_industry
        /\ last' = [op |-> "get_function", industry |-> industry,
                    function_id |-> function_id, ret |-> found.ret]
        /\ UNCHANGED <<function, industry_data, df, task_page, requests>>

GetSubfunction(industry, function_id, subfunction_id) ==
    \E found \in {get_subfunction(cache, CM, df, industry, function_id, subfunction_id)} :
        /\ cache' = found.cache
        /\ thresholds' = found.cm.thresholds
        /\ active_industry' = found.cm.active_industry
        /\ last' = [op |-> "get_subfunction", industry |-> industry,
                    function_id |-> function_id, subfunction_id |-> subfunction_id,
                    ret |-> found.ret]
        /\ UNCHANGED <<function, industry_data, df, task_page, requests>>

\* the industry names, function ids and subfunction ids the pages ask for
IndustryNames == {"BFSI", "bfsi", "Retail", "Pharma"}
FunctionIds == {"finance", "claims"}
SubfunctionIds == {"payroll", "kyc"}

\* the pages ask for an industry by name, and look functions and
\* subfunctions up by id
NextLoader ==
    \/ \E industry \in IndustryNames : LoadIndustry(industry)
    \/ \E industry \in IndustryNames, function_id \in FunctionIds :
           GetFunction(industry, function_id)
    \/ \E industry \in IndustryNames, function_id \in FunctionIds,
          subfunction_id \in SubfunctionIds :
           GetSubfunction(industry, function_id, subfunction_id)

SpecLoader == InitLoader /\ [][NextLoader]_vars

----------------------------------------------------------------------------
(* components/treemap.py, l2_overview.py, subfunction.py and                *)
(* l3_breakdown.py: the page callbacks of one process, which share the      *)
(* DataLoader cache and the ColorMapper state (SpecPages).  `last` carries  *)
(* what the callback returned to the page.                                  *)

KeyError == [raised |-> "KeyError"]

\* one pass of the loop of build_l2_overview_figure over the subfunctions of
\* a function (no company revenue: the node is sized by its unit cost)
L2OverviewNode(cm, func, sf) ==
    [label      |-> sf.name,
     value      |-> sf.unit_cost_per_1000,
     color      |-> get_color(cm, sf.automation_score),
     customdata |-> <<round(sf.automation_score, 2), get_label(cm, sf.automation_score),
                      func.name, sf.id, sf.cost_pct_revenue, FZero>>]

RECURSIVE L2OverviewNodes(_, _)
L2OverviewNodes(cm, functions) ==
    IF functions = <<>> THEN <<>>
    ELSE [j \in DOMAIN Head(functions).subfunctions |->
             L2OverviewNode(cm, Head(functions), Head(functions).subfunctions[j])]
         \o L2OverviewNodes(cm, Tail(functions))

\* build_l2_overview_figure: the colour mapper is calibrated on every
\* subfunction score under the key "_default", then the flat layout is built
L2OverviewFigure(calibrated, data) ==
    [cm  |-> calibrated,
     ret |-> TreemapData(data.industry, <<FZero, "", "", "", FZero, FZero>>,
                 L2OverviewNodes(calibrated, data.functions))]

build_l2_overview_figure(cm, data) ==
    L2OverviewFigure(calibrate(cm, all_scores(data.functions), "_default"), data)

\* load_subfunction on what get_function returned and left
SubfunctionPage(found, industry, function_id) ==
    [found EXCEPT !.ret =
        IF found.ret = None
        THEN [figure |-> None, title |-> "Function not found", back |-> "/treemap"]
        ELSE [figure |-> build_subfunction_treemap_data(found.cm, found.ret),
              title  |-> found.ret.name,
              back   |-> industry]]

load_subfunction(c, cm, rows, industry, function_id) ==
    SubfunctionPage(get_function(c, cm, rows, industry, function_id), industry, function_id)

\* the detail panel of a clicked node: the score breakdown reads the four
\* criteria of the subfunction found, and is empty without one
SubfunctionPanel(cm, point, sf) ==
    IF sf # None
       /\ ~ {"process_repeatability", "data_availability", "regulatory_complexity",
             "volume_scale"} \subseteq DOMAIN sf.automation_scores
    THEN KeyError
    ELSE [title     |-> point.label,
          color     |-> get_color(cm, point.customdata[1]),
          potential |-> point.customdata[2],
          score     |-> point.customdata[1],
          fte_pct   |-> point.customdata[3],
          cost_pct  |-> point.customdata[4],
          criteria  |-> IF sf = None THEN <<>>
                        ELSE <<sf.automation_scores["process_repeatability"],
                               sf.automation_scores["data_availability"],
                               sf.automation_scores["regulatory_complexity"],
                               sf.automation_scores["volume_scale"]>>,
          className |-> "sf-side-panel sf-panel-active"]

\* show_subfunction_panel on what get_subfunction returned and left
PanelOf(found, point) ==
    [found EXCEPT !.ret = SubfunctionPanel(found.cm, point, found.ret)]

\* show_subfunction_panel(click_data, search): no update without a click or
\* for a node without a subfunction id (the root)
show_subfunction_panel(c, cm, rows, point, industry, function_id) ==
    IF point = None THEN [ret |-> no_update, cache |-> c, cm |-> cm]
    ELSE IF Len(point.customdata) < 5 THEN [ret |-> no_update, cache |-> c, cm |-> cm]
    ELSE IF point.customdata[5] = "" THEN [ret |-> no_update, cache |-> c, cm |-> cm]
    ELSE PanelOf(get_subfunction(c, cm, rows, industry, function_id,
                                 point.customdata[5]), point)

\* the n-th node of a figure, as the click on it reports it
PointOf(figure, n) == [label |-> figure.labels[n], customdata |-> figure.customdata[n]]

\* the task workbook of the pages
PageTasks ==
    <<TaskRow("Payroll", TaskNames[1], FFromNat(1)),
      TaskRow("Payroll", TaskNames[2], FFromNat(3))>>

\* the industries the pages are opened for: those of the workbook as it
\* spells them, and "bfsi", the industry of a page opened without one
PageIndustries == {"BFSI", "bfsi", "Retail"}

InitPages ==
    /\ function = [subfunctions |-> <<>>]
    /\ industry_data = None
    /\ df = load_excel(WorkbookRows)
    /\ cache = EmptyDict
    /\ InitColorMapper
    /\ last = NoCall
    /\ l3_df = PageTasks
    /\ l3_cache = EmptyDict
    /\ page = [NoPage EXCEPT !.search = Search]
    /\ requests = <<>>

\* load_treemap: the industry loaded, its function layout and its summary
LoadTreemap(industry) ==
    \E loaded \in {load_industry(cache, CM, df, industry)} :
        /\ cache' = loaded.cache
        /\ thresholds' = loaded.cm.thresholds
        /\ active_industry' = loaded.cm.active_industry
        /\ industry_data' = loaded.ret
        /\ last' = [op |-> "load_treemap", industry |-> industry,
                    figure |-> build_function_treemap_data(loaded.cm, loaded.ret),
                    summary |-> build_l1_summary(loaded.cm, loaded.ret)]
        /\ UNCHANGED <<function, df, task_page, requests>>

\* load_l2_overview: the industry loaded, its flat layout and its summary
LoadL2Overview(industry) ==
    \E loaded \in {load_industry(cache, CM, df, industry)} :
    \E built \in {build_l2_overview_figure(loaded.cm, loaded.ret)} :
        /\ cache' = loaded.cache
        /\ thresholds' = built.cm.thresholds
        /\ active_industry' = built.cm.active_industry
        /\ industry_data' = loaded.ret
        /\ last' = [op |-> "load_l2_overview", industry |-> industry,
                    figure |-> built.ret,
                    summary |-> build_l2_overview_summary(loaded.ret)]
        /\ UNCHANGED <<function, df, task_page, requests>>

\* load_subfunction: the layout of the subfunctions of a function
LoadSubfunction(industry, function_id) ==
    \E shown \in {load_subfunction(cache, CM, df, industry, function_id)} :
        /\ cache' = shown.cache
        /\ thresholds' = shown.cm.thresholds
        /\ active_industry' = shown.cm.active_industry
        /\ page' = [page EXCEPT !.subfunction =
                       [industry |-> industry, function_id |-> function_id,
                        figure |-> shown.ret.figure]]
        /\ last' = [op |-> "load_subfunction", industry |-> industry,
                    function_id |-> function_id, ret |-> shown.ret]
        /\ UNCHANGED <<function, industry_data, df, l3_df, l3_cache, requests>>

\* show_subfunction_panel for a click on the n-th node of the layout shown
ShowSubfunctionPanel(n) ==
    /\ page.subfunction # None
    /\ page.subfunction.figure # None
    /\ n \in DOMAIN page.subfunction.figure.labels
    /\ \E shown \in {show_subfunction_panel(cache, CM, df,
                           PointOf(page.subfunction.figure, n),
                           page.subfunction.industry, page.subfunction.function_id)} :
           /\ cache' = shown.cache
           /\ thresholds' = shown.cm.thresholds
           /\ active_industry' = shown.cm.active_industry
           /\ last' = [op |-> "show_subfunction_panel", point |-> n, ret |-> shown.ret]
    /\ UNCHANGED <<function, industry_data, df, task_page, requests>>

NextPages ==
    \/ \E industry \in PageIndustries : LoadIndustry(industry)
    \/ \E industry \in PageIndustries : LoadTreemap(industry)
    \/ \E industry \in PageIndustries : LoadL2Overview(industry)
    \/ \E industry \in PageIndustries, function_id \in FunctionIds :
           LoadSubfunction(industry, function_id)
    \/ \E n \in 1..(Len(WorkbookRows) + 1) : ShowSubfunctionPanel(n)
    \/ LoadL3Page

SpecPages == InitPages /\ [][NextPages]_vars

----------------------------------------------------------------------------
(* Requests served at the same time (SpecRequests).  Each request runs      *)
(* load_treemap: DataLoader.load_industry, then the loop of                 *)
(* build_function_treemap_data over the functions of the record.  The       *)
(* requests share DataLoader._cache and the class state of ColorMapper, and *)
(* a step of one request is a read or a write of that shared state;         *)
(* `requests` holds the position and the local variables of each request.   *)

\* the requests in flight
RequestIds == {"r1", "r2"}

\* the number of loads a request makes, one after the other
MaxLoads == 2

\* a request at the entry of load_industry; `computed` tells whether it has
\* built the record itself, in this load or in one before
NewRequest(industry, loads, computed) ==
    [pc |-> "load_industry", industry |-> industry, loads |-> loads,
     computed |-> computed, result |-> None, colors |-> <<>>, labels |-> <<>>]

InitRequests ==
    /\ function = [subfunctions |-> <<>>]
    /\ industry_data = None
    /\ df = load_excel(WorkbookRows)
    /\ cache = EmptyDict
    /\ InitColorMapper
    /\ last = NoCall
    /\ NoL3
    /\ requests \in [RequestIds -> {NewRequest(industry, 1, FALSE) : industry \in PageIndustries}]

\* the request r moves to pc with its local variables changed
Goto(r, pc, changed) ==
    requests' = [requests EXCEPT ![r] = [changed EXCEPT !.pc = pc]]

\* if cache_key in cls._cache: return cls._cache[cache_key]; otherwise the
\* record is built of the rows of the frame
CheckCache(r) ==
    /\ requests[r].pc = "load_industry"
    /\ \E loaded \in {load_industry(cache, CM, df, requests[r].industry)} :
           IF CacheKey(requests[r].industry) \in DOMAIN cache
           THEN Goto(r, "get_color", [requests[r] EXCEPT !.result = loaded.ret])
           ELSE Goto(r, "calibrate",
                     [requests[r] EXCEPT !.result = loaded.ret, !.computed = TRUE])
    /\ UNCHANGED <<function, industry_data, df, cache, thresholds, active_industry,
                   last, task_page>>

\* ColorMapper.calibrate: cls._thresholds[industry_key] = (p80, p40)
CalibrateThresholds(r) ==
    /\ requests[r].pc = "calibrate"
    /\ thresholds' = calibrate(CM, all_scores(requests[r].result.functions),
                               lower(requests[r].industry)).thresholds
    /\ Goto(r, "activate", requests[r])
    /\ UNCHANGED <<function, industry_data, df, cache, active_industry, last, task_page>>

\* ColorMapper.calibrate: cls._active_industry = industry_key
CalibrateActive(r) ==
    /\ requests[r].pc = "activate"
    /\ active_industry' = calibrate(CM, all_scores(requests[r].result.functions),
                                    lower(requests[r].industry)).active_industry
    /\ Goto(r, "set_active_industry", requests[r])
    /\ UNCHANGED <<function, industry_data, df, cache, thresholds, last, task_page>>

\* ColorMapper.set_active_industry(industry.lower())
SetActive(r) ==
    /\ requests[r].pc = "set_active_industry"
    /\ \E cm \in {set_active_industry(CM, lower(requests[r].industry))} :
           /\ thresholds' = cm.thresholds
           /\ active_industry' = cm.active_industry
    /\ Goto(r, "store", requests[r])
    /\ UNCHANGED <<function, industry_data, df, cache, last, task_page>>

\* cls._cache[cache_key] = result; return result
StoreResult(r) ==
    /\ requests[r].pc = "store"
    /\ cache' = LoadMiss(cache, CM, requests[r].industry, requests[r].result).cache
    /\ Goto(r, "get_color", requests[r])
    /\ UNCHANGED <<function, industry_data, df, thresholds, active_industry, last,
                   task_page>>

\* the function the loop of build_function_treemap_data is at
FuncAt(request) == request.result.functions[Len(request.colors) + 1]

\* color = ColorMapper.get_color(score), or the end of the loop
GetColor(r) ==
    /\ requests[r].pc = "get_color"
    /\ IF Len(requests[r].colors) = Len(requests[r].result.functions)
       THEN Goto(r, "done", requests[r])
       ELSE Goto(r, "get_label",
                 [requests[r] EXCEPT !.colors =
                     Append(@, get_color(CM,
                         get_function_automation_score(FuncAt(requests[r]))))])
    /\ UNCHANGED <<function, industry_data, df, cache, thresholds, active_industry,
                   last, task_page>>

\* label = ColorMapper.get_label(score)
GetLabel(r) ==
    /\ requests[r].pc = "get_label"
    /\ Goto(r, "get_color",
            [requests[r] EXCEPT !.labels =
                Append(@, get_label(CM, get_function_automation_score(
                              requests[r].result.functions[Len(requests[r].labels) + 1])))])
    /\ UNCHANGED <<function, industry_data, df, cache, thresholds, active_industry,
                   last, task_page>>

\* the page asks for the same industry again
LoadAgain(r) ==
    /\ requests[r].pc = "done"
    /\ requests[r].loads < MaxLoads
    /\ requests' = [requests EXCEPT
                       ![r] = NewRequest(requests[r].industry, requests[r].loads + 1,
                                         requests[r].computed)]
    /\ UNCHANGED <<function, industry_data, df, cache, thresholds, active_industry,
                   last, task_page>>

NextRequests ==
    \E r \in RequestIds :
        \/ CheckCache(r)
        \/ CalibrateThresholds(r)
        \/ CalibrateActive(r)
        \/ SetActive(r)
        \/ StoreResult(r)
        \/ GetColor(r)
        \/ GetLabel(r)
        \/ LoadAgain(r)

SpecRequests == InitRequests /\ [][NextRequests]_vars

----------------------------------------------------------------------------
(* Properties of the aggregation calls (SpecAggregation)                    *)

\* the costs of the first n subfunctions added up one by one from 0
RECURSIVE CostOfFirst(_, _)
CostOfFirst(sfs, n) ==
    IF n = 0 THEN FZero
    ELSE FAdd(CostOfFirst(sfs, n - 1), sfs[n].unit_cost_per_1000)

AllCostsZero(sfs) == \A i \in 1..Len(sfs) : FIsZero(sfs[i].unit_cost_per_1000)

\* C1: get_function_unit_cost(F) is the sum of unit_cost_per_1000 over the
\* subfunctions of F, and 0 when F has none.
C1_UnitCostIsSum ==
    last.op = "get_function_unit_cost" =>
        /\ last.ret = CostOfFirst(function.subfunctions, Len(function.subfunctions))
        /\ (function.subfunctions = <<>> => last.ret = FZero)

C1_Witness ==
    /\ last.op = "get_function_unit_cost"
    /\ Len(function.subfunctions) = MaxSubs
    /\ ~FIsZero(function.subfunctions[1].unit_cost_per_1000)
    /\ function.subfunctions[1].unit_cost_per_1000
           # function.subfunctions[2].unit_cost_per_1000
    /\ FCmp(last.ret, function.subfunctions[1].unit_cost_per_1000) = 1

\* the orders a list of n subfunctions can be given in
Orders(n) == {p \in [1..n -> 1..n] : \A i, j \in 1..n : p[i] = p[j] => i = j}

Reordered(f, p) ==
    [subfunctions |-> [i \in 1..Len(f.subfunctions) |-> f.subfunctions[p[i]]]]

\* C2: get_function_automation_score returns the same value for every order
\* of the subfunction list.
C2_OrderInvariant ==
    last.op = "get_function_automation_score" =>
        \A p \in Orders(Len(function.subfunctions)) :
            get_function_automation_score(Reordered(function, p)) = last.ret

\* C3: when the costs of a function add up to 0 (all are 0, or there are no
\* subfunctions), get_function_automation_score returns 0: it divides by
\* nothing and raises nothing.
C3_ZeroCostGivesZero ==
    last.op = "get_function_automation_score" =>
        /\ last.ret # ZeroDivisionError
        /\ (AllCostsZero(function.subfunctions) => last.ret = FZero)

C3_Witness ==
    /\ last.op = "get_function_automation_score"
    /\ Len(function.subfunctions) >= 2
    /\ AllCostsZero(function.subfunctions)
    /\ last.ret = FZero

----------------------------------------------------------------------------
(* Properties of the calibration calls (SpecCalibrator)                     *)

\* the (p80, p40) the lookups read: the entry of the active key, and (4.0, 3.0)
\* when nothing is stored under it
ActiveThresholds ==
    IF active_industry \in DOMAIN thresholds THEN thresholds[active_industry]
    ELSE <<FFromNat(4), FFromNat(3)>>

Palette(label) ==
    CASE label = "High" -> "#1A7A4A"
      [] label = "Medium" -> "#52B788"
      [] label = "Low" -> "#F4C542"

\* C4: a non-null score s is High when s >= p80, Medium when p40 <= s < p80 and
\* Low when s < p40, for the thresholds (p80, p40) of the active calibration,
\* and the colour returned is the palette colour of that tier.
C4_TierByThresholds ==
    (last.op = "get_color_and_label" /\ last.score # None) =>
        /\ (FCmp(last.score, ActiveThresholds[1]) >= 0 => last.ret[2] = "High")
        /\ (FCmp(last.score, ActiveThresholds[1]) < 0
              /\ FCmp(last.score, ActiveThresholds[2]) >= 0
                => last.ret[2] = "Medium")
        /\ (FCmp(last.score, ActiveThresholds[2]) < 0 => last.ret[2] = "Low")
        /\ last.ret[1] = Palette(last.ret[2])

\* a score on the upper boundary of a stored calibration
C4_Witness ==
    /\ last.op = "get_color_and_label"
    /\ active_industry \in DOMAIN thresholds
    /\ last.score = thresholds[active_industry][1]
    /\ last.ret = <<"#1A7A4A", "High">>

HasScore(scores) == \E i \in 1..Len(scores) : IsScore(scores[i])

\* p lies between the two values of the sorted srt that the fractional rank
\* (n - 1) * q / 100 falls between (on the value itself for a whole rank)
BetweenRanks(srt, q, p) ==
    LET lo == ((Len(srt) - 1) * q) \div 100
        hi == IF ((Len(srt) - 1) * q) % 100 = 0 THEN lo ELSE lo + 1
    IN  FCmp(srt[lo + 1], p) <= 0 /\ FCmp(p, srt[hi + 1]) <= 0

\* C5: calibrate stores the 80th and 40th percentiles of the non-null scores,
\* interpolated linearly between ranks: for the scores 1..10, p80 = 8.2 and
\* p40 = 4.6, so that 9 is High, 5 Medium and 4 Low.
C5_LinearPercentiles ==
    (last.op = "calibrate" /\ HasScore(last.scores)) =>
        /\ BetweenRanks(Sorted(SelectSeq(last.scores, IsScore)), 80,
                        thresholds[last.key][1])
        /\ BetweenRanks(Sorted(SelectSeq(last.scores, IsScore)), 40,
                        thresholds[last.key][2])
        /\ (last.scores = ExampleScores =>
              /\ thresholds[last.key] = <<FRatio(82, 10), FRatio(46, 10)>>
              /\ get_label(CM, FFromNat(9)) = "High"
              /\ get_label(CM, FFromNat(5)) = "Medium"
              /\ get_label(CM, FFromNat(4)) = "Low")

C5_Witness ==
    /\ last.op = "calibrate"
    /\ last.scores = ExampleScores
    /\ last.key = "bfsi"
    /\ thresholds["bfsi"] = <<FRatio(82, 10), FRatio(46, 10)>>

Tier(label) ==
    CASE label = "Low" -> 0 [] label = "Medium" -> 1 [] label = "High" -> 2

ColorTier(color) ==
    CASE color = "#F4C542" -> 0 [] color = "#52B788" -> 1 [] color = "#1A7A4A" -> 2

\* C6: in any calibration state, a higher score never gets a lower tier, by
\* label and by colour (Low < Medium < High).
C6_TierMonotonic ==
    \A s1, s2 \in QueryScores \ {None} :
        FLt(s1, s2) =>
            /\ Tier(get_label(CM, s1)) <= Tier(get_label(CM, s2))
            /\ ColorTier(get_color(CM, s1)) <= ColorTier(get_color(CM, s2))

\* a stored calibration under which the scores asked for span all three tiers
C6_Witness ==
    /\ last.op = "get_color_and_label"
    /\ last.ret[2] = "Medium"
    /\ active_industry \in DOMAIN thresholds
    /\ \E s1, s2 \in QueryScores \ {None} :
           /\ FLt(s1, last.score) /\ FLt(last.score, s2)
           /\ get_label(CM, s1) = "Low" /\ get_label(CM, s2) = "High"

\* C7: a second calibrate with the same scores and key, right after the first,
\* changes neither the stored thresholds nor the active key.
C7_CalibrateIdempotent ==
    [][(last'.op = "calibrate" /\ last'.again) =>
           (thresholds' = thresholds /\ active_industry' = active_industry)]_vars

C7_Witness ==
    /\ last.op = "calibrate"
    /\ last.again
    /\ last.scores = MixedScores
    /\ Cardinality(DOMAIN thresholds) = 2

\* C8: calibrate with at least one non-null score stores under its key the
\* percentiles of this batch alone, makes the key active, and leaves the
\* entries of all other keys as they were.
C8_CalibrateFrame ==
    [][(last'.op = "calibrate" /\ HasScore(last'.scores)) =>
           /\ DOMAIN thresholds' = DOMAIN thresholds \cup {last'.key}
           /\ thresholds'[last'.key] =
                  <<percentile(SelectSeq(last'.scores, IsScore), 80),
                    percentile(SelectSeq(last'.scores, IsScore), 40)>>
           /\ active_industry' = last'.key
           /\ \A k \in DOMAIN thresholds \ {last'.key} :
                  thresholds'[k] = thresholds[k]]_vars

\* a recalibrated key beside another key that holds different thresholds
C8_Witness ==
    /\ last.op = "calibrate"
    /\ HasScore(last.scores)
    /\ active_industry = last.key
    /\ \E k \in DOMAIN thresholds :
           k # last.key /\ thresholds[k] # thresholds[last.key]

\* C9: calibrate with no score, or with null scores only, returns without
\* changing the stored thresholds or the active key.
C9_EmptyBatchNoOp ==
    [][(last'.op = "calibrate" /\ ~HasScore(last'.scores)) =>
           /\ thresholds' = thresholds
           /\ active_industry' = active_industry
           /\ last'.ret = None]_vars

C9_Witness ==
    /\ last.op = "calibrate"
    /\ last.scores = NullScores
    /\ last.key # active_industry
    /\ last.key \in DOMAIN thresholds
    /\ active_industry \in DOMAIN thresholds

\* C10: set_active_industry(key) leaves every stored entry as it was, and the
\* lookups after it read the entry stored under key when there is one.
C10_SetActiveFrame ==
    [][last'.op = "set_active_industry" =>
           /\ thresholds' = thresholds
           /\ active_industry' = last'.key
           /\ (last'.key \in DOMAIN thresholds =>
                  get_thresholds([thresholds |-> thresholds',
                                  active_industry |-> active_industry'])
                      = thresholds[last'.key])]_vars

\* switched from one stored calibration to another, different one
C10_Witness ==
    /\ last.op = "set_active_industry"
    /\ last.key = active_industry
    /\ last.key \in DOMAIN thresholds
    /\ \E k \in DOMAIN thresholds : thresholds[k] # thresholds[last.key]

\* C11: in every calibration state a null score is answered, never failed on:
\* get_label(None) is "Low" and get_color(None) is the Low-tier colour.
C11_NullScoreIsLow ==
    /\ get_label(CM, None) = "Low"
    /\ get_color(CM, None) = "#F4C542"
    /\ (last.op = "get_color_and_label" /\ last.score = None
          => last.ret = <<"#F4C542", "Low">>)

\* a null score looked up under a stored calibration
C11_Witness ==
    /\ last.op = "get_color_and_label"
    /\ last.score = None
    /\ active_industry \in DOMAIN thresholds
    /\ last.ret = <<"#F4C542", "Low">>

\* C12: while nothing is stored under the active key, the lookups use the
\* thresholds p80 = 4.0 and p40 = 3.0, whatever is stored under other keys.
C12_DefaultThresholds ==
    active_industry \notin DOMAIN thresholds =>
        /\ get_thresholds(CM) = <<FFromNat(4), FFromNat(3)>>
        /\ \A s \in QueryScores \ {None} :
               get_label(CM, s) =
                   IF FCmp(s, FFromNat(4)) >= 0 THEN "High"
                   ELSE IF FCmp(s, FFromNat(3)) >= 0 THEN "Medium"
                   ELSE "Low"

\* a lookup under an uncalibrated key while "_default" holds other thresholds
C12_Witness ==
    /\ last.op = "get_color_and_label"
    /\ last.score = FFromNat(4)
    /\ last.ret[2] = "High"
    /\ active_industry \notin DOMAIN thresholds
    /\ "_default" \in DOMAIN thresholds
    /\ thresholds["_default"] = <<FRatio(82, 10), FRatio(46, 10)>>

----------------------------------------------------------------------------
(* Properties of the layout calls (SpecLayout)                              *)

\* the function-level scores of an industry, and the scores of a function's
\* own subfunctions
FunctionScores(functions) ==
    [i \in DOMAIN functions |-> get_function_automation_score(functions[i])]

OwnScores(func) ==
    [j \in DOMAIN func.subfunctions |->
        get_automation_score(func.subfunctions[j].automation_scores)]

\* the colours of the given scores under a calibration over exactly them
ColorsUnder(cm, scores) == [i \in DOMAIN scores |-> get_color(cm, scores[i])]

LocalColors(scores) == ColorsUnder(calibrate(CM, scores, active_industry), scores)

\* C13: the colours a builder returns are the tiers of its nodes relative to
\* the percentiles of exactly those nodes' scores: a function's subfunctions
\* against that function's own scores, an industry's functions against the
\* industry's function-level scores.
C13_LocallyCalibrated ==
    /\ last.op = "build_subfunction_treemap_data" =>
           Tail(last.ret.colors) = LocalColors(OwnScores(industry_data.functions[last.i]))
    /\ last.op = "build_function_treemap_data" =>
           Tail(last.ret.colors) = LocalColors(FunctionScores(industry_data.functions))

\* what the last build call was made on: the industry, or the function chosen
BuiltIndustry == last.op = "build_function_treemap_data"
BuiltFunction == last.op = "build_subfunction_treemap_data"
Chosen == industry_data.functions[last.i]

\* five parallel lists of length n + 1, the root first, the children after it in
\* input order under the root's label
WellFormed(ret, root_name, children) ==
    /\ DOMAIN ret = {"labels", "parents", "values", "colors", "customdata"}
    /\ \A k \in DOMAIN ret : Len(ret[k]) = Len(children) + 1
    /\ ret.labels[1] = root_name
    /\ ret.parents[1] = ""
    /\ ret.values[1] = FZero
    /\ \A i \in DOMAIN children :
          /\ ret.labels[i + 1] = children[i].name
          /\ ret.parents[i + 1] = ret.labels[1]
          /\ ret.customdata[i + 1][Len(ret.customdata[i + 1])] = children[i].id

\* C14: both builders return five parallel lists of length n + 1 for n
\* children; record 0 is the root with parent "" and value 0, and records 1..n
\* are the children in input order, each under the root's label.
C14_ParallelArrays ==
    /\ BuiltIndustry => WellFormed(last.ret, industry_data.industry, industry_data.functions)
    /\ BuiltFunction => WellFormed(last.ret, Chosen.name, Chosen.subfunctions)

C14_Witness ==
    /\ BuiltIndustry
    /\ Len(industry_data.functions) = 2
    /\ last.ret.labels = <<"BFSI", "Finance", "Risk & Audit">>
    /\ last.ret.parents = <<"", "BFSI", "BFSI">>

\* the values of the records under the given parent, in record order
ValuesUnder(ret, parent) ==
    LET idx == {i \in DOMAIN ret.parents : ret.parents[i] = parent}
        RECURSIVE From(_)
        From(i) == IF i > Len(ret.parents) THEN <<>>
                   ELSE (IF i \in idx THEN <<ret.values[i]>> ELSE <<>>) \o From(i + 1)
    IN  From(1)

\* C15: read back from a function's layout, the values of the records under
\* the function add up to get_function_unit_cost of the function; in an
\* industry's layout each function record's value is that function's unit cost.
C15_LayoutRoundTrip ==
    /\ BuiltFunction =>
           sum(ValuesUnder(last.ret, Chosen.name)) = get_function_unit_cost(Chosen)
    /\ BuiltIndustry =>
           \A i \in DOMAIN industry_data.functions :
               last.ret.values[i + 1] = sum(Costs(industry_data.functions[i].subfunctions))

C15_Witness ==
    /\ BuiltFunction
    /\ Len(Chosen.subfunctions) = 2
    /\ sum(ValuesUnder(last.ret, Chosen.name)) = FAdd(FRatio(1, 10), FRatio(2, 10))

\* a function with nothing to draw: no subfunctions, or none that costs anything
NoArea(func) ==
    \A j \in DOMAIN func.subfunctions : FIsZero(func.subfunctions[j].unit_cost_per_1000)

\* C16: on an industry with no functions, a function with no subfunctions and
\* a function whose subfunctions all cost 0, the builders return a well-formed
\* layout (the root, and zero-value records) and never raise.
C16_DegenerateTrees ==
    /\ BuiltIndustry =>
           /\ last.ret # ZeroDivisionError
           /\ WellFormed(last.ret, industry_data.industry, industry_data.functions)
           /\ \A i \in DOMAIN industry_data.functions :
                  NoArea(industry_data.functions[i]) => last.ret.values[i + 1] = FZero
    /\ BuiltFunction /\ NoArea(Chosen) =>
           /\ WellFormed(last.ret, Chosen.name, Chosen.subfunctions)
           /\ \A i \in DOMAIN last.ret.values : last.ret.values[i] = FZero

C16_Witness ==
    /\ BuiltIndustry
    /\ industry_data = ZeroCostIndustry
    /\ last.ret.values = <<FZero, FZero, FZero>>

----------------------------------------------------------------------------
(* Properties of the summaries (SpecLayout)                                 *)

BuiltL1Summary == last.op = "build_l1_summary" /\ industry_data.functions # <<>>

\* the mean of the given function-level scores, with the roundings to two
\* places the summary may apply: none, of the mean, of the scores, of both
MeansOf(scores, rounded) ==
    {Mean(scores), round(Mean(scores), 2), Mean(rounded), round(Mean(rounded), 2)}

\* C17: the summary's overall average is the simple mean of the function-level
\* scores, each the cost-weighted mean of the function's subfunction scores
\* (the score the function treemap shows); in the worked example the function
\* scores are 3.33 and 3.0 and the overall average 3.165.
C17_MeanOfWeightedScores ==
    /\ BuiltL1Summary =>
           last.ret.overall_avg
               \in MeansOf(FunctionScores(industry_data.functions),
                           [i \in DOMAIN industry_data.functions |->
                               round(get_function_automation_score(industry_data.functions[i]), 2)])
    /\ BuiltL1Summary /\ industry_data = ExampleIndustry =>
           /\ [a \in 1..2 |-> last.ret.opportunities[a].score]
                  = <<FRatio(333, 100), FFromNat(3)>>
           /\ last.ret.overall_avg \in {FRatio(3165, 1000), FRatio(317, 100), FRatio(316, 100)}

\* where an entry stands in the input list (entries differ by their names)
Pos(x, input) == CHOOSE i \in DOMAIN input : input[i] = x

\* x comes before y in a list ranked by key: by its key, and on equal keys by
\* its place in the input
Before(x, y, input, key, reverse) ==
    \/ IF reverse THEN FLt(y[key], x[key]) ELSE FLt(x[key], y[key])
    \/ FCmp(x[key], y[key]) = 0 /\ Pos(x, input) < Pos(y, input)

\* list holds the first n entries of the input in ranked order
Ranked(list, input, key, reverse, n) ==
    /\ Len(list) = (IF Len(input) < n THEN Len(input) ELSE n)
    /\ \A a \in DOMAIN list : \E i \in DOMAIN input : input[i] = list[a]
    /\ \A a, b \in DOMAIN list : a < b => Before(list[a], list[b], input, key, reverse)
    /\ \A i \in DOMAIN input :
           (\A a \in DOMAIN list : list[a] # input[i]) =>
               \A a \in DOMAIN list : Before(list[a], input[i], input, key, reverse)

\* C18: the ranked lists of the summaries (top 3 functions, top 3
\* subfunctions, top 5 and bottom 5 subfunctions) are ordered by score, equal
\* scores in input order, and no entry is left out for a later entry of the
\* same score.
C18_StableRanking ==
    /\ BuiltL1Summary =>
           Ranked(last.ret.opportunities, FuncStats(industry_data.functions), "score", TRUE, 3)
    /\ last.op = "build_l2_summary" /\ Chosen.subfunctions # <<>> =>
           Ranked(last.ret.opportunities, Chosen.subfunctions, "automation_score", TRUE, 3)
    /\ last.op = "build_l2_overview_summary" /\ last.ret # NoData =>
           /\ Ranked(last.ret.top5, AllSfs(industry_data.functions), "score", TRUE, 5)
           /\ Ranked(last.ret.bottom5, AllSfs(industry_data.functions), "score", FALSE, 5)

\* three functions of score 2.5 follow the first: two are listed, the last is not
C18_Witness ==
    /\ BuiltL1Summary
    /\ industry_data = TiesIndustry
    /\ [a \in 1..3 |-> last.ret.opportunities[a].name] = <<"Finance", "Risk & Audit", "Claims">>
    /\ last.ret.opportunities[2].score = FRatio(25, 10)
    /\ last.ret.opportunities[3].score = FRatio(25, 10)

\* the unrounded function-level values: the mean of a function's subfunction
\* scores (0 without subfunctions) and the sum of its subfunction costs
ExactScores(functions) ==
    [i \in DOMAIN functions |->
        IF functions[i].subfunctions = <<>> THEN FZero
        ELSE Mean(SfScores(functions[i].subfunctions))]

ExactCosts(functions) ==
    [i \in DOMAIN functions |-> sum(SfCosts(functions[i].subfunctions))]

\* C19: the summary rounds only what it presents: its overall average and its
\* total cost are the roundings of the aggregates of the unrounded
\* function-level scores and costs.
C19_RoundedOnce ==
    BuiltL1Summary =>
        /\ last.ret.overall_avg
               \in {round(Mean(ExactScores(industry_data.functions)), 2),
                    round(Mean(FunctionScores(industry_data.functions)), 2)}
        /\ last.ret.total_cost_sum = round(sum(ExactCosts(industry_data.functions)), 1)

----------------------------------------------------------------------------
(* Properties of the loader calls (SpecLoader)                              *)

\* no row of the workbook is of the industry asked for
NoRowOf(industry) ==
    \A i \in DOMAIN df : strip(df[i].industry) # strip(industry)

\* C20: load_industry with a key that matches no row of the dataset signals
\* "industry not found", by a not-found return value or a raised error, and
\* does not return an industry record.
C20_UnknownIndustryNotFound ==
    last.op = "load_industry" /\ NoRowOf(last.industry) =>
        \/ last.ret = None
        \/ "raised" \in DOMAIN last.ret

\* the record the last call was given by load_industry: the one cached under
\* the key of its industry
Loaded == cache[CacheKey(last.industry)]

HasId(xs, id) == \E i \in DOMAIN xs : xs[i].id = id

\* C21: get_function and get_subfunction never raise; they return None for an
\* industry no row of the workbook is of, for a function id the industry has
\* not, and for a subfunction id the function has not; get_subfunction
\* returns None whenever its function is not found.  What they return
\* otherwise carries the id.
C21_LookupNotFound ==
    /\ last.op \in {"get_function", "get_subfunction"} =>
           /\ "raised" \notin DOMAIN last.ret
           /\ (NoRowOf(last.industry) => last.ret = None)
           /\ (~HasId(Loaded.functions, last.function_id) => last.ret = None)
    /\ last.op = "get_function" /\ last.ret # None => last.ret.id = last.function_id
    /\ last.op = "get_subfunction" /\ HasId(Loaded.functions, last.function_id) =>
           IF HasId(FindId(Loaded.functions, last.function_id).subfunctions,
                    last.subfunction_id)
           THEN last.ret.id = last.subfunction_id
           ELSE last.ret = None

\* the cells the frame was read from
Raw == SubSeq(WorkbookRows, 1, Len(df))

\* the rows of the frame that are of the industry (and of the function l1),
\* by their positions
RowsOf(industry) ==
    SelectSeq([i \in DOMAIN df |-> i],
              LAMBDA i : strip(df[i].industry) = strip(industry))

RowsOfFunction(industry, l1) ==
    SelectSeq(RowsOf(industry), LAMBDA i : df[i].l1 = l1)

\* the score a row counts with: its number, or 1.0 when the cell holds none
ScoreOfRow(i) == IF Malformed(Raw[i].score) THEN FFromNat(1) ELSE Raw[i].score

ScoresOfRows(is) == [k \in DOMAIN is |-> ScoreOfRow(is[k])]
CostsOfRows(is) == [k \in DOMAIN is |-> df[is[k]].cost]
WeightedOfRows(is) == [k \in DOMAIN is |-> FMul(ScoreOfRow(is[k]), df[is[k]].cost)]

\* the row is a subfunction of the function, with the score 1.0
IsDefaulted(f, i) ==
    /\ f.name = strip(df[i].l1)
    /\ \E j \in DOMAIN f.subfunctions :
           /\ f.subfunctions[j].name = strip(df[i].l2)
           /\ f.subfunctions[j].unit_cost_per_1000 = df[i].cost
           /\ f.subfunctions[j].automation_score = FFromNat(1)
           /\ f.subfunctions[j].automation_scores = [score |-> FFromNat(1)]

\* C22: load_industry drops no row: every row of the industry whose score
\* cell holds no number is a subfunction of its function with the score 1.0,
\* the function's unit cost and weighted score are those of all its rows with
\* 1.0 for that score, and the industry is calibrated on the scores of all
\* its rows with 1.0 for that score.
C22_MalformedScoreKept ==
    last.op = "load_industry" /\ ~last.cached =>
        /\ Len(all_scores(last.ret.functions)) = Len(RowsOf(last.industry))
        /\ \A i \in DOMAIN df :
               Malformed(Raw[i].score) /\ strip(df[i].industry) = strip(last.industry) =>
                   \E n \in DOMAIN last.ret.functions :
                       /\ IsDefaulted(last.ret.functions[n], i)
                       /\ get_function_unit_cost(last.ret.functions[n])
                              = sum(CostsOfRows(RowsOfFunction(last.industry, df[i].l1)))
                       /\ get_function_automation_score(last.ret.functions[n])
                              = FDiv(sum(WeightedOfRows(
                                             RowsOfFunction(last.industry, df[i].l1))),
                                     sum(CostsOfRows(
                                             RowsOfFunction(last.industry, df[i].l1))))
                       /\ thresholds[lower(last.industry)]
                              = <<percentile(ScoresOfRows(RowsOf(last.industry)), 80),
                                  percentile(ScoresOfRows(RowsOf(last.industry)), 40)>>

\* a row with a text for a score loaded among rows with scores: the function
\* holds it with 1.0 beside two scored rows, and the default moves p40
C22_Witness ==
    /\ last.op = "load_industry" /\ ~last.cached
    /\ last.industry = "BFSI"
    /\ Len(df) >= 5
    /\ Malformed(Raw[5].score)
    /\ Len(last.ret.functions[1].subfunctions) = 3
    /\ last.ret.functions[1].subfunctions[3].automation_score = FFromNat(1)
    /\ thresholds["bfsi"][2] # percentile(ScoresOfRows(SubSeq(RowsOf("BFSI"), 1, 3)), 40)

\* C27: the functions list load_industry returns is the one made of the rows
\* of the industry asked for, whatever calls were made before.
C27_HistoryIndependent ==
    last.op = "load_industry" =>
        last.ret.functions
            = LoadFunctions(GroupBy(SelectRows(df, strip(last.industry)), <<>>))

\* C30: every function of the record load_industry returns is the one
\* get_function finds by its id, and every subfunction of it the one
\* get_subfunction finds by the two ids.
C30_IdRoundTrip ==
    last.op = "load_industry" =>
        \A n \in DOMAIN last.ret.functions :
            /\ get_function(cache, CM, df, last.industry,
                            last.ret.functions[n].id).ret = last.ret.functions[n]
            /\ \A j \in DOMAIN last.ret.functions[n].subfunctions :
                   get_subfunction(cache, CM, df, last.industry,
                                   last.ret.functions[n].id,
                                   last.ret.functions[n].subfunctions[j].id).ret
                       = last.ret.functions[n].subfunctions[j]

----------------------------------------------------------------------------
(* Properties of the task page (SpecL3Page)                                 *)

\* the task on the card that reports index i
TaskOnCard(i) == page.cards[i + 1].task

\* C26: the panel opened by a click on the card at position i, and the panel
\* shown on return to the Summary tab while i is the selected index, is the
\* detail panel of the task that card i displays.
C26_CardOpensItsTask ==
    /\ last.op = "on_card_click" /\ last.ret # no_update =>
           page.panel.task = TaskOnCard(last.index)
    /\ last.op = "switch_l3_tab" /\ last.triggered = "l3-tab-summary"
           /\ page.selected_index # None =>
           page.panel.task = TaskOnCard(page.selected_index.int)

----------------------------------------------------------------------------
(* Properties of the page callbacks (SpecPages)                             *)

\* the subfunction scores of the rows of an industry
ScoresOf(industry) ==
    all_scores(LoadFunctions(GroupBy(SelectRows(df, strip(industry)), <<>>)))

\* C25: whenever load_industry(X) returns, from the cache or not and whatever
\* the pages did before, the active calibration key is X.lower(), and the
\* active thresholds are the percentiles of X's subfunction scores if it has
\* any.
C25_LoadMakesIndustryActive ==
    last.op = "load_industry" =>
        /\ active_industry = lower(last.industry)
        /\ ScoresOf(last.industry) # <<>> =>
               get_thresholds(CM) = <<percentile(ScoresOf(last.industry), 80),
                                      percentile(ScoresOf(last.industry), 40)>>

\* the colours of the function treemap load_treemap builds for an industry
\* on the cache c and the colour mapper cm
TreemapColors(c, cm, industry) ==
    build_function_treemap_data(load_industry(c, cm, df, industry).cm,
                                load_industry(c, cm, df, industry).ret).colors

\* C28: load_l3_page for an industry already loaded leaves the colours of its
\* function treemap as they were: rebuilding the treemap after it gives the
\* colours that building it before gave.
C28_L3PageKeepsTreemapColors ==
    [][LoadL3Page =>
          \A industry \in PageIndustries :
              (/\ CacheKey(industry) \in DOMAIN cache
               /\ lower(industry) = lower(strip(page.search.industry)))
              => TreemapColors(cache', [thresholds |-> thresholds',
                                        active_industry |-> active_industry'],
                               industry)
                     = TreemapColors(cache, CM, industry)]_vars

\* C29: a click on the node of a subfunction in the subfunction treemap
\* returns a detail panel and raises nothing; a click on the root node
\* returns no update.
C29_ClickOpensPanel ==
    last.op = "show_subfunction_panel" =>
        IF last.point = 1 THEN last.ret = no_update
        ELSE last.ret # no_update /\ "raised" \notin DOMAIN last.ret

----------------------------------------------------------------------------
(* Properties of the requests served at the same time (SpecRequests)        *)

\* the colour mapper as calibrate leaves it on the scores of one industry
\* alone
CalibratedOn(industry) ==
    calibrate([thresholds |-> EmptyDict, active_industry |-> "_default"],
              ScoresOf(industry), lower(industry))

\* the functions of an industry, as load_industry builds them from its rows
FunctionsOf(industry) ==
    LoadFunctions(GroupBy(SelectRows(df, strip(industry)), <<>>))

\* the colours of functions under the thresholds calibrated on the scores of
\* the industry `other`
LayoutColors(functions, other) ==
    [n \in DOMAIN functions |->
        get_color(CalibratedOn(other), get_function_automation_score(functions[n]))]

\* C23: the colours of a request's layout are computed with the thresholds
\* active at the moment of each get_color, which the other request may have
\* calibrated in between: every colour of the layout of X is the colour under
\* the thresholds of X's scores or under those of Y's scores, and an
\* interleaving colours the layout of X with the thresholds of Y.
C23_ColoredByEitherCalibration ==
    \A r \in RequestIds : \A n \in DOMAIN requests[r].colors :
        \E q \in RequestIds :
            requests[r].colors[n]
                = LayoutColors(requests[r].result.functions, requests[q].industry)[n]

\* a request for X that calibrated and set its key itself, and whose finished
\* layout has the colours that Y's thresholds give, which are not its own
C23_Witness ==
    \E r, q \in RequestIds :
        /\ CacheKey(requests[r].industry) # CacheKey(requests[q].industry)
        /\ requests[r].pc = "done" /\ requests[r].loads = 1 /\ requests[r].computed
        /\ requests[r].result.functions = FunctionsOf(requests[r].industry)
        /\ requests[r].colors
               = LayoutColors(FunctionsOf(requests[r].industry), requests[q].industry)
        /\ requests[r].colors
               # LayoutColors(FunctionsOf(requests[r].industry), requests[r].industry)

\* C24: two requests that load under the same cache key at the same time
\* receive equal records, whichever populates the cache first; once a request
\* has its record the cache holds a record for the key that is equal to it,
\* and so does every later load of the key.
C24_SamePopulation ==
    \A r, q \in RequestIds :
        CacheKey(requests[r].industry) = CacheKey(requests[q].industry) =>
            /\ (requests[r].result # None /\ requests[q].result # None)
                   => requests[r].result = requests[q].result
            /\ requests[r].pc \in {"get_color", "get_label", "done"} =>
                   /\ CacheKey(requests[r].industry) \in DOMAIN cache
                   /\ cache[CacheKey(requests[r].industry)] = requests[r].result

====
